---- MODULE Spec2Model ----
(***************************************************************************)
(* Dungeon level generation (RoomGenerator, CorridorGenerator), the field  *)
(* of view engine (FOV) and the A* path finder (PathFinder, PriorityQueue) *)
(* of the game, as state machines.                                         *)
(*                                                                         *)
(* The specifications share the module, one per subsystem:                 *)
(*   SpecGen   generateRooms followed by connectRooms (generateLevel order)*)
(*   SpecFov   FOV.calculate / FOV.resetVisibility on one grid             *)
(*   SpecFovOnce  the first FOV.calculate on a new grid                    *)
(*   SpecPath  PathFinder.findPath, one search-loop iteration per step     *)
(*   SpecCarve  the corridor carving methods called on a grid, twice       *)
(*   SpecFeatures  placeStairs, placeDoors, placeTraps (generateLevel)     *)
(*   SpecItems  ItemPlacer.placeItems on a level with its traps placed     *)
(*   SpecFovEdit  FOV calls with the grid edited or exchanged between them *)
(*   SpecTile  the queries of a Tile                                       *)
(*   SpecLevel  generateLevel after the rooms are connected                *)
(*   SpecSight  getLineOfSight between two positions                       *)
(*   SpecSmooth  findSmoothPath                                            *)
(*   SpecQueue  a PriorityQueue and calls of its three operations          *)
(* A specification leaves the variables of the other subsystems at their   *)
(* initial value.                                                          *)
(*                                                                         *)
(* Coordinates are pairs <<x, y>>.  Sequences are 1-based, so room index j  *)
(* of the source is index j + 1 here, and a grid is a sequence of rows of  *)
(* which At(m, <<x, y>>) is the source's m[y][x].                          *)
(***************************************************************************)
EXTENDS Integers, Sequences, FiniteSets, TLC

VARIABLES
    \* ---- generation ----
    map,          \* the grid of generateLevel: rows of tile chars, map[y][x]
    rooms,        \* RoomGenerator.generateRooms: the committed room list
    floor,        \* the floor number passed to generateLevel
    roomTry,      \* generateRooms: the loop counter i
    connected,    \* connectRooms: the Set `connected`, in insertion order
    corridors,    \* connectRooms: the (roomA, roomB) pairs handed to createCorridor
    gpc,          \* position in generateLevel: "rooms", "connect", "connecting", "done"
    \* ---- field of view ----
    fovMap,       \* the grid passed to FOV: rows of tile chars
    visible,      \* the cells whose tile has visible = true
    discovered,   \* the cells whose tile has discovered = true
    visibleTiles, \* FOV.visibleTiles
    lastPlayerPos,\* FOV.lastPlayerPos
    lastRadius,   \* FOV.lastRadius
    fovOp,        \* how the last FOV call ended: "none", "computed", "cached",
                  \* "threw" (calculate), "reset" (resetVisibility), "edited"
                  \* (the caller changed the grid); the number of calls made;
                  \* the arguments of the last call of calculate
    \* ---- path finding ----
    pathMap,      \* PathFinder.map: rows of tile chars, or NoMap for null
    options,      \* the six option fields of the PathFinder (this.allowDiagonal ...)
    entityMap,    \* PathFinder.entityMap: the coordinates that are keys of it
    call,         \* the arguments of the last findPath call
    prevOptions,  \* findPath: prevOptions
    openSet,      \* findPath: openSet.values, the heap array of the PriorityQueue
    closedSet,    \* findPath: the keys of closedSet
    gScore,       \* findPath: gScore, in tenths
    cameFrom,     \* findPath: cameFrom
    iterations,   \* findPath: iterations
    result,       \* what the last findPath call returned
    ppc,          \* position in findPath: "idle", "searching", "returned"
    \* ---- corridor carving on its own ----
    carveBefore,  \* the grid as it was before the last corridor was carved
    carveLast,    \* the last corridor carved into map: style, end points, draws
    \* ---- features (stairs, doors, traps) ----
    difficulty,      \* the difficulty given to generateLevel
    stairsPosition,  \* what placeStairs returned; <<-1, -1>> before it ran
    potentialDoors,  \* the list findPotentialDoorLocations built
    doorPositions,   \* the door records, in the order they were pushed
    validPositions,  \* placeTraps' validPositions, less the spliced ones
    trapPositions,   \* the trap records, in the order they were pushed
    trapData,        \* cell -> the trapData of its tile, for the tiles that have one
    fpc,             \* position in generateLevel after connectRooms
    \* ---- ItemPlacer ----
    lootPool,        \* the loot pool given to generateLevel
    items,           \* generateLevel's items array
    itemPositions,   \* placeItems' positions list
    itemFlags,       \* the cells whose tile has item = true
    placing,         \* placeItems' validPositions and loop counter i
    \* ---- queries on one object ----
    thisTile,        \* a Tile
    tileAnswer,      \* the last method called on it and what it returned
    startPos,        \* generateLevel's startPos
    sight,           \* the last getLineOfSight call and what it returned
    smoothed,        \* what findSmoothPath returned
    queue,           \* a PriorityQueue's values array
    queueOp          \* the last call on the queue, what it returned, and the
                     \* values enqueued and not yet returned by dequeue

genVars == <<map, rooms, floor, roomTry, connected, corridors, gpc>>
fovVars == <<fovMap, visible, discovered, visibleTiles, lastPlayerPos, lastRadius, fovOp>>

pathVars == <<pathMap, options, entityMap, call, prevOptions, openSet, closedSet,
              gScore, cameFrom, iterations, result, ppc>>

carveVars == <<carveBefore, carveLast>>

featVars == <<difficulty, stairsPosition, potentialDoors, doorPositions, validPositions,
              trapPositions, trapData, fpc>>

itemVars == <<lootPool, items, itemPositions, itemFlags, placing>>

queryVars == <<thisTile, tileAnswer, startPos, sight, smoothed, queue, queueOp>>

vars == <<genVars, fovVars, pathVars, carveVars, featVars, itemVars, queryVars>>

\* What an action of one subsystem leaves alone.
otherThanGen == <<fovVars, pathVars, carveVars, featVars, itemVars, queryVars>>
otherThanFov == <<genVars, pathVars, carveVars, featVars, itemVars, queryVars>>
otherThanPath == <<genVars, fovVars, carveVars, featVars, itemVars, queryVars>>

(***************************************************************************)
(* Arithmetic helpers                                                      *)
(***************************************************************************)
Abs(n) == IF n < 0 THEN -n ELSE n
Min(a, b) == IF a < b THEN a ELSE b
Max(a, b) == IF a > b THEN a ELSE b

\* Math.floor(n / d) for d > 0
FloorDiv(n, d) == n \div d

\* Math.ceil(n / d) for d > 0
CeilDiv(n, d) == -((-n) \div d)

\* The values Math.floor(Math.random() * n) can take: 0 .. n-1 for n > 0,
\* n .. 0 for n <= 0 (Math.random() is in [0, 1)).
RandomBelow(n) == IF n > 0 THEN 0 .. (n - 1) ELSE n .. 0

(***************************************************************************)
(* Bounds of the generation model                                          *)
(***************************************************************************)
\* MAP.WIDTH and MAP.HEIGHT are 80 and 50 in the game; the model uses a
\* strip in which three rooms of the minimum size fit side by side, on either
\* of two rows.
GenWidth == 14
GenHeight == 7
\* generateRooms makes 20 + min(2 * floor, 30) attempts; the model stops the
\* loop after MaxAttempts of them.
MaxAttempts == 3
\* Floor numbers given to generateLevel: one on each side of the
\* `floor > 5` test of adjustRoomParams.
Floors == {1, 6}

WALL == "#"
FLOOR == "."

GenCells == (0 .. GenWidth - 1) \X (0 .. GenHeight - 1)

\* The source's m[y][x] for the cell c = <<x, y>>.
At(m, c) == m[c[2] + 1][c[1] + 1]

\* The grid of GenWidth x GenHeight tiles whose tile at cell c is f(c).
GenGrid(f(_)) == [yy \in 1 .. GenHeight |-> [xx \in 1 .. GenWidth |-> f(<<xx - 1, yy - 1>>)]]

(***************************************************************************)
(* RoomGenerator                                                           *)
(***************************************************************************)
minRoomSize == 3

\* adjustRoomParams: the `else if (floor > 10)` branch is unreachable, so
\* floors above 5 all get 9 and 18.
maxRoomSize(fl) == IF fl > 5 THEN 9 ELSE 8
maxRooms(fl) == IF fl > 5 THEN 18 ELSE 15

calculateRoomAttempts(fl) == 20 + Min(fl * 2, 30)

\* A room record as generateRoom builds it; center is
\* (floor(x + width / 2), floor(y + height / 2)).
Room(x, y, w, h) ==
    [x |-> x, y |-> y, width |-> w, height |-> h,
     center |-> <<FloorDiv(2 * x + w, 2), FloorDiv(2 * y + h, 2)>>]

\* The values of the first two draws of generateRoom (width and height) and,
\* given a width or height, of the draw for x or y.
SizeDraws(fl) == RandomBelow(maxRoomSize(fl) - minRoomSize + 1)
PosDraws(limit, size) == RandomBelow(limit - size - 2)

\* generateRoom, given the values rw, rh, rx, ry of its four
\* Math.floor(Math.random() * n) draws.  isSpecial and the floorType it
\* selects are cosmetic and not modelled.
generateRoom(rw, rh, rx, ry) ==
    Room(rx + 1, ry + 1, rw + minRoomSize, rh + minRoomSize)

\* canPlaceRoom with the margin test left out: only the room's own cells are
\* required to be wall.
canPlaceRoomNoMargin(m, room) ==
    /\ ~ (\/ room.x < 1 \/ room.y < 1
          \/ room.x + room.width >= GenWidth - 1
          \/ room.y + room.height >= GenHeight - 1)
    /\ \A y \in room.y .. (room.y + room.height - 1) :
         \A x \in room.x .. (room.x + room.width - 1) :
            At(m, <<x, y>>) = WALL

canPlaceRoom(m, room) ==
    /\ ~ (\/ room.x < 1 \/ room.y < 1
          \/ room.x + room.width >= GenWidth - 1
          \/ room.y + room.height >= GenHeight - 1)
    /\ \A y \in (room.y - 1) .. (room.y + room.height) :
         \A x \in (room.x - 1) .. (room.x + room.width) :
            At(m, <<x, y>>) = WALL

carveRoom(m, room) ==
    LET tile(c) == IF /\ c[1] >= room.x /\ c[1] < room.x + room.width
                      /\ c[2] >= room.y /\ c[2] < room.y + room.height
                   THEN FLOOR ELSE At(m, c)
    IN  GenGrid(tile)

\* MapGenerator.initializeMap
initializeMap ==
    LET tile(c) == WALL
    IN  GenGrid(tile)

\* The number of iterations the loop of generateRooms makes in the model.
RoomAttempts(fl) == Min(calculateRoomAttempts(fl), MaxAttempts)

\* One iteration of the loop of generateRooms whose room fits: the room is
\* carved and appended.
TryRoomPlaced ==
    /\ gpc = "rooms"
    /\ roomTry < RoomAttempts(floor)
    /\ Len(rooms) < maxRooms(floor)
    /\ \E rw \in SizeDraws(floor), rh \in SizeDraws(floor) :
         \E rx \in PosDraws(GenWidth, rw + minRoomSize),
            ry \in PosDraws(GenHeight, rh + minRoomSize) :
            LET room == generateRoom(rw, rh, rx, ry)
            IN  /\ canPlaceRoom(map, room)
                /\ map' = carveRoom(map, room)
                /\ rooms' = Append(rooms, room)
    /\ roomTry' = roomTry + 1
    /\ UNCHANGED <<floor, connected, corridors, gpc>>
    /\ UNCHANGED otherThanGen

\* One iteration of the loop of generateRooms whose room does not fit: the
\* room is discarded and the map is left alone.
TryRoomDiscarded ==
    /\ gpc = "rooms"
    /\ roomTry < RoomAttempts(floor)
    /\ Len(rooms) < maxRooms(floor)
    /\ ~ \A rw \in SizeDraws(floor), rh \in SizeDraws(floor) :
           \A rx \in PosDraws(GenWidth, rw + minRoomSize),
              ry \in PosDraws(GenHeight, rh + minRoomSize) :
              canPlaceRoom(map, generateRoom(rw, rh, rx, ry))
    /\ roomTry' = roomTry + 1
    /\ UNCHANGED <<map, rooms, floor, connected, corridors, gpc>>
    /\ UNCHANGED otherThanGen

\* generateRooms returns: the attempts are used up or maxRooms is reached.
GenerateRoomsReturn ==
    /\ gpc = "rooms"
    /\ (roomTry >= RoomAttempts(floor) \/ Len(rooms) >= maxRooms(floor))
    /\ gpc' = "connect"
    /\ UNCHANGED <<map, rooms, floor, roomTry, connected, corridors>>
    /\ UNCHANGED otherThanGen

(***************************************************************************)
(* CorridorGenerator                                                       *)
(***************************************************************************)
\* calculateDistance: Manhattan distance between two points
calculateDistance(pointA, pointB) ==
    Abs(pointA[1] - pointB[1]) + Abs(pointA[2] - pointB[2])

\* hCorridor without the test that the tile is a wall.
hCorridorOverwriting(m, x1, x2, y) ==
    LET tile(c) == IF c[2] = y /\ c[1] >= Min(x1, x2) /\ c[1] <= Max(x1, x2)
                   THEN FLOOR ELSE At(m, c)
    IN  GenGrid(tile)

hCorridor(m, x1, x2, y) ==
    LET tile(c) == IF /\ c[2] = y /\ c[1] >= Min(x1, x2) /\ c[1] <= Max(x1, x2)
                      /\ At(m, c) = WALL
                   THEN FLOOR ELSE At(m, c)
    IN  GenGrid(tile)

vCorridor(m, y1, y2, x) ==
    LET tile(c) == IF /\ c[1] = x /\ c[2] >= Min(y1, y2) /\ c[2] <= Max(y1, y2)
                      /\ At(m, c) = WALL
                   THEN FLOOR ELSE At(m, c)
    IN  GenGrid(tile)

createElbowCorridor(m, x1, y1, x2, y2, horizontalFirst) ==
    IF horizontalFirst
    THEN vCorridor(hCorridor(m, x1, x2, y1), y1, y2, x2)
    ELSE hCorridor(vCorridor(m, y1, y2, x1), x1, x2, y2)

\* The loop of createZigzagCorridor from segment i on; it yields the map and
\* the current position when the loop ends.
RECURSIVE ZigzagLoop(_, _, _, _, _, _, _)
ZigzagLoop(m, i, segments, currentX, currentY, x2, y2) ==
    IF i >= segments
    THEN [m |-> m, x |-> currentX, y |-> currentY]
    ELSE LET targetX == IF i = segments - 1 THEN x2
                        ELSE currentX + FloorDiv((x2 - currentX) * (i + 1), segments)
             targetY == IF i = segments - 1 THEN y2
                        ELSE currentY + FloorDiv((y2 - currentY) * (i + 1), segments)
         IN  IF i % 2 = 0
             THEN ZigzagLoop(hCorridor(m, currentX, targetX, currentY),
                             i + 1, segments, targetX, currentY, x2, y2)
             ELSE ZigzagLoop(vCorridor(m, currentY, targetY, currentX),
                             i + 1, segments, currentX, targetY, x2, y2)

\* createZigzagCorridor without the two closing calls that reach the end point.
createZigzagCorridorOpenEnded(m, x1, y1, x2, y2, segments) ==
    ZigzagLoop(m, 0, segments, x1, y1, x2, y2).m

createZigzagCorridor(m, x1, y1, x2, y2, segments) ==
    LET r == ZigzagLoop(m, 0, segments, x1, y1, x2, y2)
    IN  vCorridor(hCorridor(r.m, r.x, x2, r.y), r.y, y2, x2)

\* createCorridor: the maps one call can leave, over its random choices
\* (elbow in either order, zigzag with 2, 3 or 4 segments).
createCorridor(m, roomA, roomB) ==
    LET x1 == roomA.center[1]
        y1 == roomA.center[2]
        x2 == roomB.center[1]
        y2 == roomB.center[2]
    IN  { createElbowCorridor(m, x1, y1, x2, y2, hf) : hf \in BOOLEAN }
          \cup { createZigzagCorridor(m, x1, y1, x2, y2, s) : s \in 2 .. 4 }

\* ---- corridor carving on its own ----
\* The end points given to the carving methods: cells of the grid and two
\* coordinates outside it.
CarveEnds ==
    { <<1, 1>>, <<GenWidth - 2, GenHeight - 2>>, <<6, 2>>, <<3, GenHeight - 2>>,
      <<GenWidth, 1>>, <<4, -1>> }

DOOR == "+"
STAIRS == ">"

\* The grids given to the carving methods: all wall, one carved room, and a
\* carved room with a door and stairs in the way of the corridors.
CarveGrids ==
    LET room == carveRoom(initializeMap, Room(1, 1, 3, 3))
        tile(c) == IF c = <<5, 1>> THEN DOOR
                   ELSE IF c = <<6, 3>> THEN STAIRS
                   ELSE At(room, c)
    IN  { initializeMap, room, GenGrid(tile) }

NoCorridor == [kind |-> "none", a |-> <<0, 0>>, b |-> <<0, 0>>, draw |-> 0, again |-> FALSE]

\* The grid left by carving the corridor c into m.  c.draw is 1 for an
\* elbow that goes horizontally first, and the number of segments of a zigzag.
Carve(m, c) ==
    IF c.kind = "h" THEN hCorridor(m, c.a[1], c.b[1], c.a[2])
    ELSE IF c.kind = "v" THEN vCorridor(m, c.a[2], c.b[2], c.a[1])
    ELSE IF c.kind = "elbow"
         THEN createElbowCorridor(m, c.a[1], c.a[2], c.b[1], c.b[2], c.draw = 1)
    ELSE createZigzagCorridor(m, c.a[1], c.a[2], c.b[1], c.b[2], c.draw)

\* A first corridor of the given style and draws is carved.
CarveFirst(kind, draws) ==
    /\ carveLast.kind = "none"
    /\ \E a \in CarveEnds, b \in CarveEnds, draw \in draws :
         LET c == [kind |-> kind, a |-> a, b |-> b, draw |-> draw, again |-> FALSE]
         IN  /\ carveLast' = c
             /\ carveBefore' = map
             /\ map' = Carve(map, c)
    /\ UNCHANGED <<rooms, floor, roomTry, connected, corridors, gpc>>
    /\ UNCHANGED <<fovVars, pathVars, featVars, itemVars, queryVars>>

CarveH == CarveFirst("h", {0})
CarveV == CarveFirst("v", {0})
CarveElbow == CarveFirst("elbow", {0, 1})
CarveZigzag == CarveFirst("zigzag", 2 .. 4)

\* The corridor carved last is carved a second time, with the same draws.
CarveAgain ==
    /\ carveLast.kind # "none"
    /\ ~carveLast.again
    /\ carveLast' = [carveLast EXCEPT !.again = TRUE]
    /\ carveBefore' = map
    /\ map' = Carve(map, carveLast)
    /\ UNCHANGED <<rooms, floor, roomTry, connected, corridors, gpc>>
    /\ UNCHANGED <<fovVars, pathVars, featVars, itemVars, queryVars>>

CarveStart == carveBefore = initializeMap /\ carveLast = NoCorridor

CarveNext ==
    \/ CarveH
    \/ CarveV
    \/ CarveElbow
    \/ CarveZigzag
    \/ CarveAgain

SeqRange(s) == { s[k] : k \in 1 .. Len(s) }

\* One pass of the body of `while (connected.size < rooms.length)`: the two
\* nested for loops.  `for (const i of connected)` also visits the indices
\* the pass itself adds.  st.minDistance = -1 stands for Infinity,
\* st.roomA = 0 for undefined.
RECURSIVE ClosestScan(_, _, _, _)
ClosestScan(rs, st, ci, j) ==
    IF ci > Len(st.connected) THEN st
    ELSE IF j > Len(rs) THEN ClosestScan(rs, st, ci + 1, 1)
    ELSE IF j \in SeqRange(st.connected) THEN ClosestScan(rs, st, ci, j + 1)
    ELSE LET i == st.connected[ci]
             distance == calculateDistance(rs[i].center, rs[j].center)
         IN  IF st.minDistance = -1 \/ distance < st.minDistance
             THEN ClosestScan(rs,
                              [connected |-> Append(st.connected, j),
                               minDistance |-> distance,
                               roomA |-> i, roomB |-> j],
                              ci, j + 1)
             ELSE ClosestScan(rs, st, ci, j + 1)

\* connectRooms up to the while loop.
ConnectStart ==
    /\ gpc = "connect"
    /\ IF Len(rooms) <= 1
       THEN /\ gpc' = "done"
            /\ UNCHANGED connected
       ELSE /\ gpc' = "connecting"
            /\ connected' = <<1>>
    /\ UNCHANGED <<map, rooms, floor, roomTry, corridors>>
    /\ UNCHANGED otherThanGen

\* One iteration of the while loop of connectRooms.
ConnectPass ==
    /\ gpc = "connecting"
    /\ Len(connected) < Len(rooms)
    /\ LET st == ClosestScan(rooms,
                             [connected |-> connected, minDistance |-> -1,
                              roomA |-> 0, roomB |-> 0], 1, 1)
       IN  /\ connected' = st.connected
           /\ IF st.roomA # 0 /\ st.roomB # 0
              THEN /\ map' \in createCorridor(map, rooms[st.roomA], rooms[st.roomB])
                   /\ corridors' = Append(corridors, <<st.roomA, st.roomB>>)
              ELSE UNCHANGED <<map, corridors>>
    /\ UNCHANGED <<rooms, floor, roomTry, gpc>>
    /\ UNCHANGED otherThanGen

\* The loop that adds extra corridors, from iteration i on: the results it
\* can leave, over the random room pairs and corridor styles.  A result is
\* the map and the list of pairs handed to createCorridor.
RECURSIVE ExtraCorridors(_, _, _, _)
ExtraCorridors(rs, res, i, extraCorridors) ==
    IF i >= extraCorridors THEN {res}
    ELSE UNION { IF a = b
                 THEN ExtraCorridors(rs, res, i + 1, extraCorridors)
                 ELSE UNION { ExtraCorridors(rs,
                                  [m |-> m2, log |-> Append(res.log, <<a, b>>)],
                                  i + 1, extraCorridors) :
                              m2 \in createCorridor(res.m, rs[a], rs[b]) } :
                 <<a, b>> \in (1 .. Len(rs)) \X (1 .. Len(rs)) }

\* connectRooms after the while loop: the extra corridors, then the return.
ConnectFinish ==
    /\ gpc = "connecting"
    /\ Len(connected) >= Len(rooms)
    /\ \E res \in ExtraCorridors(rooms, [m |-> map, log |-> corridors],
                                  0, FloorDiv(Len(rooms), 4)) :
         /\ map' = res.m
         /\ corridors' = res.log
    /\ gpc' = "done"
    /\ UNCHANGED <<rooms, floor, roomTry, connected>>
    /\ UNCHANGED otherThanGen

\* generateLevel is entered: a fresh map of walls and no rooms.
GenStart ==
    /\ map = initializeMap
    /\ rooms = <<>>
    /\ roomTry = 0
    /\ connected = <<>>
    /\ corridors = <<>>
    /\ gpc = "rooms"

GenNext ==
    \/ TryRoomPlaced
    \/ TryRoomDiscarded
    \/ GenerateRoomsReturn
    \/ ConnectStart
    \/ ConnectPass
    \/ ConnectFinish

(***************************************************************************)
(* FOV                                                                     *)
(***************************************************************************)
\* MAP.WIDTH and MAP.HEIGHT as FOV.castShadows and FOV.resetVisibility read
\* them: the model's grid is FovHeight + 1 tiles wide and FovHeight high.
FovHeight == 3
FovWidth == FovHeight + 1
\* The radii given to calculate are 0 .. FovMaxRadius.
FovMaxRadius == 3
\* How many calls of calculate and resetVisibility a behaviour makes.
FovMaxCalls == 3

FovCells == (0 .. FovWidth - 1) \X (0 .. FovHeight - 1)

\* The origins given to calculate: every cell of the grid, and two
\* coordinates outside it.
FovOrigins == FovCells \cup { <<-1, 0>>, <<0, FovHeight>> }

\* The origins and radii of the calls in a sequence of calls: three cells of
\* the grid and a coordinate outside it, the radius 1 and the largest one.
FovSeqOrigins == { <<1, 1>>, <<0, 0>>, <<FovWidth - 1, FovHeight - 1>>, <<-1, 0>> }
FovSeqRadii == { 1, FovMaxRadius }

\* The wall cells of the grids given to FOV: no wall, one wall, a wall
\* segment, and the room <<1, 1>> enclosed by a ring of walls.
FovWallSets ==
    { {},
      { <<1, 0>> },
      { <<2, 0>>, <<2, 1>> },
      { c \in (0 .. 2) \X (0 .. 2) : c # <<1, 1>> } }

FovGrid(walls) ==
    [yy \in 1 .. FovHeight |->
        [xx \in 1 .. FovWidth |-> IF <<xx - 1, yy - 1>> \in walls THEN WALL ELSE FLOOR]]

\* Tile.blocksVision
blocksVision(char) == char = WALL

\* FOV.mapOctantToCoordinates
mapOctantToCoordinates(originX, originY, row, col, octant) ==
    CASE octant = 0 -> <<originX + col, originY - row>>
      [] octant = 1 -> <<originX + row, originY - col>>
      [] octant = 2 -> <<originX + row, originY + col>>
      [] octant = 3 -> <<originX + col, originY + row>>
      [] octant = 4 -> <<originX - col, originY + row>>
      [] octant = 5 -> <<originX - row, originY + col>>
      [] octant = 6 -> <<originX - row, originY - col>>
      [] octant = 7 -> <<originX - col, originY - row>>
      [] OTHER -> <<originX, originY>>

\* castShadows: `distanceSquared > radiusSquared`, and the same test with >=
\* in place of >.
OutsideRadiusOrOnIt(dx, dy, radius) == dx * dx + dy * dy >= radius * radius
OutsideRadius(dx, dy, radius) == dx * dx + dy * dy > radius * radius

\* FOV.castShadows.  A slope is the fraction n / d with d > 0: startSlope is
\* sn / sd and endSlope is en / ed, so getSlope(i, j - 0.5) is
\* (2j - 1) / (2i).  The operators yield the coordinates the call pushes on
\* visibleTiles, in order; these are the tiles it marks visible and
\* discovered.  CastCells is the inner loop from column j on (it also yields
\* the final value of `blocked`), CastRows the outer loop from row i on.
RECURSIVE castShadows(_, _, _, _, _, _, _, _, _, _)
RECURSIVE CastRows(_, _, _, _, _, _, _, _, _, _)
RECURSIVE CastCells(_, _, _, _, _, _, _, _, _, _, _)

CastCells(m, originX, originY, radius, i, j, jmax, blocked, sn, sd, octant) ==
    IF j > jmax THEN [tiles |-> <<>>, blocked |-> blocked]
    ELSE LET c == mapOctantToCoordinates(originX, originY, i, j, octant)
             dx == c[1] - originX
             dy == c[2] - originY
         IN  IF c[1] < 0 \/ c[1] >= FovWidth \/ c[2] < 0 \/ c[2] >= FovHeight
             THEN CastCells(m, originX, originY, radius, i, j + 1, jmax, blocked, sn, sd, octant)
             ELSE IF OutsideRadius(dx, dy, radius)
             THEN CastCells(m, originX, originY, radius, i, j + 1, jmax, blocked, sn, sd, octant)
             ELSE LET wall == blocksVision(At(m, c))
                      nowBlocked == IF ~ blocked /\ wall THEN TRUE
                                    ELSE IF blocked /\ ~ wall THEN FALSE
                                    ELSE blocked
                      inner == IF ~ blocked /\ wall
                               THEN castShadows(m, originX, originY, radius, i + 1,
                                                sn, sd, 2 * j - 1, 2 * i, octant)
                               ELSE <<>>
                      rest == CastCells(m, originX, originY, radius, i, j + 1, jmax,
                                        nowBlocked, sn, sd, octant)
                  IN  [tiles |-> <<c>> \o inner \o rest.tiles, blocked |-> rest.blocked]

CastRows(m, originX, originY, radius, i, sn, sd, en, ed, octant) ==
    IF i > radius THEN <<>>
    ELSE LET r == CastCells(m, originX, originY, radius, i,
                            FloorDiv(i * en, ed), CeilDiv(i * sn, sd),
                            FALSE, sn, sd, octant)
         IN  r.tiles \o (IF r.blocked THEN <<>>
                         ELSE CastRows(m, originX, originY, radius, i + 1,
                                       sn, sd, en, ed, octant))

castShadows(m, originX, originY, radius, row, sn, sd, en, ed, octant) ==
    IF sn * ed < en * sd THEN <<>>
    ELSE CastRows(m, originX, originY, radius, row, sn, sd, en, ed, octant)

\* The loop over the octants in calculate, from octant k on.
RECURSIVE CastOctants(_, _, _, _, _)
CastOctants(m, originX, originY, radius, k) ==
    IF k >= 8 THEN <<>>
    ELSE castShadows(m, originX, originY, radius, 1, 1, 1, 0, 1, k)
           \o CastOctants(m, originX, originY, radius, k + 1)

\* The flags calculate sets on a tile it sees: which of visible and
\* discovered.
MarkOnlyVisible == [visible |-> TRUE, discovered |-> FALSE]
Mark == [visible |-> TRUE, discovered |-> TRUE]

FovCallsMade == fovOp.calls

\* The arguments of the last call of calculate, none before the first call.
NoArgs == <<>>
Args(originX, originY, radius) == <<originX, originY, radius>>

\* The cache test with the radius left out.
cacheHitOnOrigin(originX, originY, radius) ==
    lastPlayerPos = <<originX, originY>>

\* The test at the head of calculate: the cached result can be used.
cacheHit(originX, originY, radius) ==
    lastPlayerPos = <<originX, originY>> /\ lastRadius = radius

\* calculate(map, originX, originY, radius)
Calculate(originX, originY, radius) ==
    /\ FovCallsMade < FovMaxCalls
    /\ IF cacheHit(originX, originY, radius)
       THEN \* the cached result is returned
            /\ fovOp' = [how |-> "cached", calls |-> fovOp.calls + 1,
                          args |-> Args(originX, originY, radius)]
            /\ UNCHANGED <<visible, discovered, visibleTiles, lastPlayerPos, lastRadius>>
       ELSE /\ lastPlayerPos' = <<originX, originY>>
            /\ lastRadius' = radius
            /\ IF <<originX, originY>> \notin FovCells
               THEN \* map[originY][originX] is undefined: the assignment throws
                    /\ visibleTiles' = << <<originX, originY>> >>
                    /\ fovOp' = [how |-> "threw", calls |-> fovOp.calls + 1,
                                  args |-> Args(originX, originY, radius)]
                    /\ UNCHANGED <<visible, discovered>>
               ELSE LET seen == << <<originX, originY>> >>
                                 \o CastOctants(fovMap, originX, originY, radius, 0)
                    IN  /\ visibleTiles' = seen
                        /\ visible' = IF Mark.visible
                                      THEN visible \cup SeqRange(seen) ELSE visible
                        /\ discovered' = IF Mark.discovered
                                         THEN discovered \cup SeqRange(seen) ELSE discovered
                        /\ fovOp' = [how |-> "computed", calls |-> fovOp.calls + 1,
                                      args |-> Args(originX, originY, radius)]
    /\ UNCHANGED fovMap
    /\ UNCHANGED otherThanFov

\* A call of calculate in a sequence of calls.
FovCalculate ==
    \E o \in FovSeqOrigins : \E radius \in FovSeqRadii : Calculate(o[1], o[2], radius)

\* The first call of calculate on a new FOV, with any origin and radius.
FovCalculateFirst ==
    /\ FovCallsMade = 0
    /\ \E o \in FovOrigins : \E radius \in 0 .. FovMaxRadius : Calculate(o[1], o[2], radius)

\* resetVisibility(map)
FovResetVisibility ==
    /\ FovCallsMade < FovMaxCalls
    /\ visible' = {}
    /\ fovOp' = [fovOp EXCEPT !.how = "reset", !.calls = fovOp.calls + 1]
    /\ UNCHANGED <<fovMap, discovered, visibleTiles, lastPlayerPos, lastRadius>>
    /\ UNCHANGED otherThanFov

\* new FOV(), and a grid whose tiles are all not visible and not discovered
FovStart ==
    /\ visible = {}
    /\ discovered = {}
    /\ visibleTiles = <<>>
    /\ lastPlayerPos = <<-1, -1>>
    /\ lastRadius = -1
    /\ fovOp = [how |-> "none", calls |-> 0, args |-> NoArgs]

FovNext == FovCalculate \/ FovResetVisibility

\* Between two calls the caller changes walls of the grid it passes.
FovWallsChange ==
    /\ \E walls \in FovWallSets :
         /\ FovGrid(walls) # fovMap
         /\ fovMap' = FovGrid(walls)
    /\ fovOp' = [fovOp EXCEPT !.how = "edited"]
    /\ UNCHANGED <<visible, discovered, visibleTiles, lastPlayerPos, lastRadius>>
    /\ UNCHANGED otherThanFov

\* Between two calls the caller takes another grid to pass, a new one on
\* which no tile is marked.
FovOtherGrid ==
    /\ \E walls \in FovWallSets : fovMap' = FovGrid(walls)
    /\ visible' = {}
    /\ discovered' = {}
    /\ fovOp' = [fovOp EXCEPT !.how = "edited"]
    /\ UNCHANGED <<visibleTiles, lastPlayerPos, lastRadius>>
    /\ UNCHANGED otherThanFov

FovEditNext ==
    \/ FovCalculate
    \/ FovResetVisibility
    \/ FovWallsChange
    \/ FovOtherGrid

(***************************************************************************)
(* PriorityQueue                                                           *)
(***************************************************************************)
\* A priority is the number (p + q * sqrt(2)) / 10 with p and q integers:
\* step costs are multiples of 0.1 and the octile heuristic is an integer
\* plus an integer multiple of Math.SQRT2.  PriorityLess compares two of
\* them exactly.  (The doubles of the source order the priorities of every
\* search of this model the same way.)
PriorityLess(a, b) ==
    LET d == a.p - b.p
        e == b.q - a.q
    IN  IF d < 0 /\ e >= 0 THEN TRUE
        ELSE IF d >= 0 /\ e <= 0 THEN FALSE
        ELSE IF d >= 0 THEN d * d < 2 * e * e
        ELSE d * d > 2 * e * e

\* The heap array `values` is a sequence of elements [value, priority];
\* index idx of the source is index idx + 1 here.  valueMap maps each value
\* of the array to its element and is not kept separately.
containsValue(values, value) == \E k \in 1..Len(values) : values[k].value = value

\* this.values.indexOf(element)
IndexOf(values, value) == (CHOOSE k \in 1..Len(values) : values[k].value = value) - 1

\* The while loop of _bubbleUp and _bubbleUpElement, from index idx on.
RECURSIVE BubbleLoop(_, _, _)
BubbleLoop(values, idx, element) ==
    IF idx > 0
    THEN LET parentIdx == FloorDiv(idx - 1, 2)
             parent == values[parentIdx + 1]
         IN  IF ~PriorityLess(element.priority, parent.priority)
             THEN values
             ELSE BubbleLoop([values EXCEPT ![parentIdx + 1] = element,
                                            ![idx + 1] = parent],
                             parentIdx, element)
    ELSE values

\* The while loop of _sinkDown and _sinkDownElement, from index idx on;
\* swap = -1 stands for null.
RECURSIVE SinkLoop(_, _, _)
SinkLoop(values, idx, element) ==
    LET length == Len(values)
        leftChildIdx == 2 * idx + 1
        rightChildIdx == 2 * idx + 2
        swapLeft == IF /\ leftChildIdx < length
                       /\ PriorityLess(values[leftChildIdx + 1].priority, element.priority)
                    THEN leftChildIdx ELSE -1
        swap == IF /\ rightChildIdx < length
                   /\ \/ /\ swapLeft = -1
                         /\ PriorityLess(values[rightChildIdx + 1].priority,
                                         element.priority)
                      \/ /\ swapLeft # -1
                         /\ PriorityLess(values[rightChildIdx + 1].priority,
                                         values[leftChildIdx + 1].priority)
                THEN rightChildIdx ELSE swapLeft
    IN  IF swap = -1
        THEN values
        ELSE SinkLoop([values EXCEPT ![idx + 1] = values[swap + 1],
                                     ![swap + 1] = element],
                      swap, element)

bubbleUp(values) == BubbleLoop(values, Len(values) - 1, values[Len(values)])

bubbleUpElement(values, value) ==
    LET idx == IndexOf(values, value) IN BubbleLoop(values, idx, values[idx + 1])

\* _sinkDown that leaves the array as it is
sinkDownNowhere(values) == values

sinkDown(values) == SinkLoop(values, 0, values[1])

sinkDownElement(values, value) ==
    LET idx == IndexOf(values, value) IN SinkLoop(values, idx, values[idx + 1])

enqueue(values, value, priority) ==
    bubbleUp(Append(values, [value |-> value, priority |-> priority]))

\* dequeue on a queue that is not empty: the value returned and the array left.
dequeue(values) ==
    LET min == values[1]
        end == values[Len(values)]
        popped == SubSeq(values, 1, Len(values) - 1)
    IN  [value |-> min.value,
         values |-> IF Len(popped) > 0
                    THEN sinkDown([popped EXCEPT ![1] = end])
                    ELSE popped]

updatePriority(values, value, newPriority) ==
    IF ~containsValue(values, value)
    THEN values
    ELSE LET idx == IndexOf(values, value)
             oldPriority == values[idx + 1].priority
             updated == [values EXCEPT ![idx + 1].priority = newPriority]
         IN  IF PriorityLess(newPriority, oldPriority)
             THEN bubbleUpElement(updated, value)
             ELSE IF PriorityLess(oldPriority, newPriority)
                  THEN sinkDownElement(updated, value)
                  ELSE updated

(***************************************************************************)
(* PathFinder                                                              *)
(***************************************************************************)
\* The grid given to the PathFinder is PathWidth x PathHeight tiles.
PathWidth == 4
PathHeight == 3
\* The small value of maxIterations among the per-call options.
PathSmallCap == 2

PathCells == (0..(PathWidth - 1)) \X (0..(PathHeight - 1))

\* The map object is the caller's: the PathFinder reads isInBounds, getTile
\* and, of a tile, walkable, hasTrap, hidden and moveCost.  A tile is a char:
\* floor, wall, a trap in plain sight, a hidden trap, and ground that costs
\* double to enter.
TRAP == "^"
HIDDEN_TRAP == "_"
MUD == "~"
NoMap == <<>>

walkable(tile) == tile # WALL
hasTrap(tile) == tile \in {TRAP, HIDDEN_TRAP}
hidden(tile) == tile = HIDDEN_TRAP
\* tile.moveCost; 0 stands for a tile without one
moveCost(tile) == IF tile = MUD THEN 2 ELSE 0

isInBounds(m, x, y) == x >= 0 /\ x < Len(m[1]) /\ y >= 0 /\ y < Len(m)
getTile(m, x, y) == At(m, <<x, y>>)

\* The grid whose tile at cell c is tiles[c] where given, and floor elsewhere.
PathGrid(tiles) ==
    [y \in 1..PathHeight |->
        [x \in 1..PathWidth |->
            IF <<x - 1, y - 1>> \in DOMAIN tiles THEN tiles[<<x - 1, y - 1>>] ELSE FLOOR]]

\* The grids given to the PathFinder: open ground; a wall stub that makes a
\* corner at <<1, 2>>; a wall that splits the grid in two; traps and mud.
OpenGrid == PathGrid([c \in {} |-> WALL])
PathLayouts ==
    { OpenGrid,
      PathGrid([c \in {<<1, 0>>, <<1, 1>>} |-> WALL]),
      PathGrid([c \in {2} \X (0..(PathHeight - 1)) |-> WALL]),
      PathGrid(<<1, 1>> :> TRAP @@ <<1, 0>> :> HIDDEN_TRAP
               @@ <<0, 1>> :> MUD @@ <<2, 1>> :> MUD) }

\* The option fields set by the constructor; heuristicWeight is in tenths
\* (12 is 1.2).
Defaults ==
    [allowDiagonal |-> TRUE, avoidEntities |-> TRUE, avoidTraps |-> TRUE,
     cutCorners |-> FALSE, maxIterations |-> 1000, heuristicWeight |-> 12]

\* An options object is a record of the fields it defines; NoOptions is {}.
NoOptions == [f \in {} |-> TRUE]

\* The options objects passed to findPath and to setOptions.
CallOptions ==
    { NoOptions,
      [heuristicWeight |-> 10],
      [allowDiagonal |-> FALSE, heuristicWeight |-> 10],
      [cutCorners |-> TRUE],
      [maxIterations |-> PathSmallCap],
      [avoidTraps |-> FALSE, avoidEntities |-> FALSE] }
SetOptionsInputs == { [avoidEntities |-> FALSE], [avoidEntities |-> TRUE] }

\* The start and goal coordinates passed to findPath, with one coordinate
\* outside the grid in each, and the entity lists passed to updateEntityMap
\* (each entity is the pair of its x and y).
PathStarts == {<<0, 0>>, <<0, 1>>, <<PathWidth - 1, PathHeight - 1>>, <<-1, 0>>}
PathGoals == PathCells \cup {<<PathWidth, 0>>}
EntityLists == { <<>>, << <<1, 1>> >>, << <<0, 0>> >> }

\* setOptions: the option fields after setOptions(o) when they were cur.
setOptions(cur, o) == [f \in DOMAIN cur |-> IF f \in DOMAIN o THEN o[f] ELSE cur[f]]

\* posToKey and keyToPos: the key `${x},${y}` of integer coordinates is kept
\* as the pair itself.
posToKey(x, y) == <<x, y>>
keyToPos(key) == key

\* this.setOptions(prevOptions) with no field restored
restoreNoOption(cur, prev) == cur

\* this.setOptions(prevOptions), where prevOptions holds the six option
\* fields as they were when findPath was entered
restoreOptions(cur, prev) == setOptions(cur, prev)

\* isOccupiedByEntity with the entity cache never looked at
isOccupiedByNoEntity(opts, ents, x, y) == FALSE

isOccupiedByEntity(opts, ents, x, y) ==
    IF ~opts.avoidEntities THEN FALSE ELSE posToKey(x, y) \in ents

\* isWalkable with the test for traps left out.
isWalkableOverTraps(m, opts, ents, x, y) ==
    /\ isInBounds(m, x, y)
    /\ walkable(getTile(m, x, y))
    /\ ~(opts.avoidEntities /\ isOccupiedByEntity(opts, ents, x, y))

isWalkable(m, opts, ents, x, y) ==
    /\ isInBounds(m, x, y)
    /\ LET tile == getTile(m, x, y)
       IN  /\ walkable(tile)
           /\ ~(opts.avoidEntities /\ isOccupiedByEntity(opts, ents, x, y))
           /\ ~(opts.avoidTraps /\ hasTrap(tile) /\ ~hidden(tile))

\* checkNeighbor: what it pushes on `neighbors`; costs are in tenths.
checkNeighbor(m, opts, ents, x, y, baseCost) ==
    IF isWalkable(m, opts, ents, x, y)
    THEN LET tile == getTile(m, x, y)
         IN  << [x |-> x, y |-> y,
                 cost |-> IF moveCost(tile) # 0 THEN baseCost * moveCost(tile)
                          ELSE baseCost] >>
    ELSE <<>>

\* One of the four diagonal checks of getNeighbors.
Diagonal(m, opts, ents, x, y, dx, dy) ==
    IF \/ opts.cutCorners
       \/ isWalkable(m, opts, ents, x + dx, y) /\ isWalkable(m, opts, ents, x, y + dy)
    THEN checkNeighbor(m, opts, ents, x + dx, y + dy, 14)
    ELSE <<>>

\* getNeighbors with every diagonal checked as if cutCorners were set.
getNeighborsAcrossCorners(m, opts, ents, x, y) ==
    checkNeighbor(m, opts, ents, x + 1, y, 10)
    \o checkNeighbor(m, opts, ents, x - 1, y, 10)
    \o checkNeighbor(m, opts, ents, x, y + 1, 10)
    \o checkNeighbor(m, opts, ents, x, y - 1, 10)
    \o (IF opts.allowDiagonal
        THEN checkNeighbor(m, opts, ents, x + 1, y + 1, 14)
             \o checkNeighbor(m, opts, ents, x + 1, y - 1, 14)
             \o checkNeighbor(m, opts, ents, x - 1, y + 1, 14)
             \o checkNeighbor(m, opts, ents, x - 1, y - 1, 14)
        ELSE <<>>)

getNeighbors(m, opts, ents, x, y) ==
    checkNeighbor(m, opts, ents, x + 1, y, 10)
    \o checkNeighbor(m, opts, ents, x - 1, y, 10)
    \o checkNeighbor(m, opts, ents, x, y + 1, 10)
    \o checkNeighbor(m, opts, ents, x, y - 1, 10)
    \o (IF opts.allowDiagonal
        THEN Diagonal(m, opts, ents, x, y, 1, 1)
             \o Diagonal(m, opts, ents, x, y, 1, -1)
             \o Diagonal(m, opts, ents, x, y, -1, 1)
             \o Diagonal(m, opts, ents, x, y, -1, -1)
        ELSE <<>>)

\* heuristic: the value a + b * sqrt(2), as the record of a and b.  The
\* octile distance (dx + dy) + (SQRT2 - 2) * min(dx, dy) is
\* (dx + dy - 2 min) + min * sqrt(2).
heuristic(opts, x1, y1, x2, y2) ==
    LET dx == Abs(x1 - x2)
        dy == Abs(y1 - y2)
    IN  IF opts.allowDiagonal
        THEN [a |-> (dx + dy) - 2 * Min(dx, dy), b |-> Min(dx, dy)]
        ELSE [a |-> dx + dy, b |-> 0]

\* The priority g + h * weight, for g and weight in tenths.
Priority(g, h, weight) == [p |-> g + weight * h.a, q |-> weight * h.b]

\* The while loop of reconstructPath, then the start position added to a
\* path that is not empty.
RECURSIVE ReconstructLoop(_, _, _)
ReconstructLoop(from, current, path) ==
    IF current \in DOMAIN from
    THEN ReconstructLoop(from, from[current], <<keyToPos(current)>> \o path)
    ELSE IF Len(path) > 0 THEN <<keyToPos(current)>> \o path ELSE path

reconstructPath(from, currentKey) == ReconstructLoop(from, currentKey, <<>>)

\* The body of the loop over the neighbors of the current node in findPath.
\* st holds openSet.values, gScore and cameFrom.  fScore is only read back
\* right after it is written, so it is not kept.
ProcessNeighbor(neighbor, currentKey, closed, end, opts, st) ==
    LET neighborKey == posToKey(neighbor.x, neighbor.y)
        tentativeGScore == st.gScore[currentKey] + neighbor.cost
        neighborInOpenSet == containsValue(st.openSet, neighborKey)
        f == Priority(tentativeGScore,
                      heuristic(opts, neighbor.x, neighbor.y, end[1], end[2]),
                      opts.heuristicWeight)
    IN  IF neighborKey \in closed
        THEN st
        ELSE IF ~neighborInOpenSet \/ tentativeGScore < st.gScore[neighborKey]
             THEN [openSet |-> IF ~neighborInOpenSet
                               THEN enqueue(st.openSet, neighborKey, f)
                               ELSE updatePriority(st.openSet, neighborKey, f),
                   gScore |-> (neighborKey :> tentativeGScore) @@ st.gScore,
                   cameFrom |-> (neighborKey :> currentKey) @@ st.cameFrom]
             ELSE st

\* The loop over the neighbors, from neighbor k on.  (The singleton set
\* fixes the value left by neighbor k before the next one is processed.)
RECURSIVE ProcessNeighbors(_, _, _, _, _, _, _)
ProcessNeighbors(neighbors, k, currentKey, closed, end, opts, st) ==
    IF k > Len(neighbors)
    THEN st
    ELSE CHOOSE r \in { ProcessNeighbors(neighbors, k + 1, currentKey, closed, end,
                                         opts, after) :
                          after \in { ProcessNeighbor(neighbors[k], currentKey, closed,
                                                      end, opts, st) } } : TRUE

\* The condition of the while loop of findPath, without the iteration cap.
LoopContinuesUncapped(values, iters, opts) == values # <<>>

\* The condition of the while loop of findPath.
LoopContinues(values, iters, opts) == values # <<>> /\ iters < opts.maxIterations

NoPath == [isNull |-> TRUE, path |-> <<>>]
NoKeys == [key \in {} |-> 0]

\* findPath(startX, startY, endX, endY, opts) up to the while loop: the
\* options are set, and the call returns null at once without a map or with
\* a start or end that is not walkable.  A behaviour follows one call, made
\* after any number of setOptions and updateEntityMap calls: what a call
\* does depends on the map, the option fields and the entity map only, and
\* all it keeps between calls are the option fields.
FindPathBegin ==
    /\ ppc = "idle"
    /\ \E start \in PathStarts, end \in PathGoals, opts \in CallOptions :
        LET set == setOptions(options, opts)
            startKey == posToKey(start[1], start[2])
        IN  /\ call' = [start |-> start, goal |-> end, options |-> opts]
            /\ prevOptions' = options
            /\ closedSet' = {}
            /\ cameFrom' = NoKeys
            /\ iterations' = 0
            /\ result' = NoPath
            /\ IF \/ pathMap = NoMap
                  \/ ~isWalkable(pathMap, set, entityMap, start[1], start[2])
                  \/ ~isWalkable(pathMap, set, entityMap, end[1], end[2])
               THEN /\ options' = restoreOptions(set, options)
                    /\ openSet' = <<>>
                    /\ gScore' = NoKeys
                    /\ ppc' = "returned"
               ELSE /\ options' = set
                    /\ openSet' = enqueue(<<>>, startKey,
                                          Priority(0, heuristic(set, start[1], start[2],
                                                                end[1], end[2]), 10))
                    /\ gScore' = (startKey :> 0)
                    /\ ppc' = "searching"
    /\ UNCHANGED <<pathMap, entityMap>>
    /\ UNCHANGED otherThanPath

\* One iteration of the while loop of findPath: the node of lowest priority
\* is dequeued; the goal ends the call with the reconstructed path, any
\* other node is closed and its neighbors are processed.
FindPathIterate ==
    /\ ppc = "searching"
    /\ LoopContinues(openSet, iterations, options)
    /\ iterations' = iterations + 1
    /\ LET d == dequeue(openSet)
           currentKey == d.value
           current == keyToPos(currentKey)
       IN  IF current = call.goal
           THEN /\ result' = [isNull |-> FALSE, path |-> reconstructPath(cameFrom, currentKey)]
                /\ options' = restoreOptions(options, prevOptions)
                /\ openSet' = d.values
                /\ ppc' = "returned"
                /\ UNCHANGED <<closedSet, gScore, cameFrom>>
           ELSE LET closed == closedSet \cup {currentKey}
                    st == ProcessNeighbors(
                              getNeighbors(pathMap, options, entityMap,
                                           current[1], current[2]),
                              1, currentKey, closed, call.goal, options,
                              [openSet |-> d.values, gScore |-> gScore,
                               cameFrom |-> cameFrom])
                IN  /\ closedSet' = closed
                    /\ openSet' = st.openSet
                    /\ gScore' = st.gScore
                    /\ cameFrom' = st.cameFrom
                    /\ UNCHANGED <<result, options, ppc>>
    /\ UNCHANGED <<pathMap, entityMap, call, prevOptions>>
    /\ UNCHANGED otherThanPath

\* The while loop of findPath ends with the open set empty or the iteration
\* cap reached: the call returns null.
FindPathExhausted ==
    /\ ppc = "searching"
    /\ ~LoopContinues(openSet, iterations, options)
    /\ result' = NoPath
    /\ options' = restoreOptions(options, prevOptions)
    /\ ppc' = "returned"
    /\ UNCHANGED <<pathMap, entityMap, call, prevOptions, openSet, closedSet,
                   gScore, cameFrom, iterations>>
    /\ UNCHANGED otherThanPath

\* setOptions(o), called before the search.
SetOptions ==
    /\ ppc = "idle"
    /\ \E o \in SetOptionsInputs : options' = setOptions(options, o)
    /\ UNCHANGED <<pathMap, entityMap, call, prevOptions, openSet, closedSet,
                   gScore, cameFrom, iterations, result, ppc>>
    /\ UNCHANGED otherThanPath

\* updateEntityMap(entities), called before the search.
UpdateEntityMap ==
    /\ ppc = "idle"
    /\ \E entities \in EntityLists :
        entityMap' = IF ~options.avoidEntities THEN {} ELSE SeqRange(entities)
    /\ UNCHANGED <<pathMap, options, call, prevOptions, openSet, closedSet,
                   gScore, cameFrom, iterations, result, ppc>>
    /\ UNCHANGED otherThanPath

\* new PathFinder(map), before any call.
PathStart ==
    /\ options = Defaults
    /\ entityMap = {}
    /\ call = [start |-> <<0, 0>>, goal |-> <<0, 0>>, options |-> NoOptions]
    /\ prevOptions = Defaults
    /\ openSet = <<>>
    /\ closedSet = {}
    /\ gScore = NoKeys
    /\ cameFrom = NoKeys
    /\ iterations = 0
    /\ result = NoPath
    /\ ppc = "idle"

PathNext ==
    \/ FindPathBegin
    \/ FindPathIterate
    \/ FindPathExhausted
    \/ SetOptions
    \/ UpdateEntityMap

(***************************************************************************)
(* StairsGenerator, DoorGenerator, TrapGenerator                           *)
(***************************************************************************)
LOCKED_DOOR == "L"
SECRET_DOOR == "S"

\* m with the char of the tile at c set to ch
Stamp(m, c, ch) ==
    [y \in 1 .. Len(m) |->
        [x \in 1 .. Len(m[y]) |->
            IF <<x - 1, y - 1>> = c THEN ch ELSE m[y][x]]]

\* The cells the scans `for y = 1 .. height - 2, x = 1 .. width - 2` visit.
Interior == (1 .. (GenWidth - 2)) \X (1 .. (GenHeight - 2))

\* placeStairs: the cells it can stamp.  The sort by distance from the map
\* center is stable, so the first of the furthest rooms is taken.
StairsSpots(m, rs) ==
    IF Len(rs) > 0
    THEN LET mapCenter == <<FloorDiv(GenWidth, 2), FloorDiv(GenHeight, 2)>>
             dist(k) == calculateDistance(rs[k].center, mapCenter)
             far == CHOOSE k \in 1 .. Len(rs) :
                        \A j \in 1 .. Len(rs) :
                            dist(j) < dist(k) \/ (dist(j) = dist(k) /\ j >= k)
             stairsRoom == rs[far]
         IN  { <<dx + stairsRoom.x + 1, dy + stairsRoom.y + 1>> :
                   dx \in RandomBelow(stairsRoom.width - 2),
                   dy \in RandomBelow(stairsRoom.height - 2) }
    ELSE LET candidates == { c \in GenCells : At(m, c) = FLOOR }
         IN  IF candidates # {} THEN candidates
             ELSE { <<GenWidth - 2, GenHeight - 2>> }

PlaceStairs ==
    /\ fpc = "stairs"
    /\ \E s \in StairsSpots(map, rooms) :
         /\ map' = Stamp(map, s, STAIRS)
         /\ stairsPosition' = s
    /\ fpc' = "doors"
    /\ UNCHANGED <<rooms, floor, roomTry, connected, corridors, gpc>>
    /\ UNCHANGED <<difficulty, potentialDoors, doorPositions, validPositions,
                   trapPositions, trapData>>
    /\ UNCHANGED <<fovVars, pathVars, carveVars, itemVars, queryVars>>

\* findPotentialDoorLocations: floor tiles with walls above and below and
\* floor left and right, or with walls left and right and floor above and
\* below.
findPotentialDoorLocations(m) ==
    LET ch(c, dx, dy) == At(m, <<c[1] + dx, c[2] + dy>>)
        horizontal == { c \in Interior :
                          /\ At(m, c) = FLOOR
                          /\ ch(c, 0, -1) = WALL /\ ch(c, 0, 1) = WALL
                          /\ ch(c, -1, 0) = FLOOR /\ ch(c, 1, 0) = FLOOR }
        vertical == { c \in Interior :
                          /\ At(m, c) = FLOOR
                          /\ ch(c, -1, 0) = WALL /\ ch(c, 1, 0) = WALL
                          /\ ch(c, 0, -1) = FLOOR /\ ch(c, 0, 1) = FLOOR }
    IN  { [x |-> c[1], y |-> c[2], orientation |-> "horizontal"] : c \in horizontal }
          \cup { [x |-> c[1], y |-> c[2], orientation |-> "vertical"] : c \in vertical }

\* doorCount = floor(5 + floor * 0.5) and the three shares of it
doorCount(fl) == FloorDiv(10 + fl, 2)
regularDoorCount(fl) == FloorDiv(doorCount(fl) * 7, 10)
lockedDoorCount(fl) == FloorDiv(doorCount(fl) * 2, 10) + FloorDiv(fl, 3)
secretDoorCount(fl) == FloorDiv(doorCount(fl), 10) + FloorDiv(fl, 4)

\* The candidates of a door pass, without the test of the tile.
StillListed(m, potential) == potential

\* The candidates a door pass may still claim: those whose tile is floor.
StillFloor(m, potential) == { q \in potential : At(m, <<q.x, q.y>>) = FLOOR }

\* One door pass (placeRegularDoors, placeLockedDoors, placeSecretDoors):
\* shuffleArray puts the candidates in any order, and the loop claims, in that
\* order, the candidates whose tile is still floor until `count` are placed.
\* The results it can leave: the map and the records pushed.
RECURSIVE DoorPass(_, _, _, _, _, _)
DoorPass(m, potential, count, type, ch, placed) ==
    IF count <= 0 \/ StillFloor(m, potential) = {}
    THEN { [m |-> m, placed |-> placed] }
    ELSE UNION { DoorPass(Stamp(m, <<q.x, q.y>>, ch), potential \ {q}, count - 1, type, ch,
                          Append(placed, [x |-> q.x, y |-> q.y, type |-> type,
                                          orientation |-> q.orientation])) :
                 q \in StillFloor(m, potential) }

PlaceRegularDoors ==
    /\ fpc = "doors"
    /\ potentialDoors' = findPotentialDoorLocations(map)
    /\ \E r \in DoorPass(map, potentialDoors', regularDoorCount(floor), "regular", DOOR, <<>>) :
         /\ map' = r.m
         /\ doorPositions' = r.placed
    /\ fpc' = "locked"
    /\ UNCHANGED <<rooms, floor, roomTry, connected, corridors, gpc>>
    /\ UNCHANGED <<difficulty, stairsPosition, validPositions, trapPositions, trapData>>
    /\ UNCHANGED <<fovVars, pathVars, carveVars, itemVars, queryVars>>

PlaceLockedDoors ==
    /\ fpc = "locked"
    /\ \E r \in DoorPass(map, potentialDoors, lockedDoorCount(floor), "locked", LOCKED_DOOR, <<>>) :
         /\ map' = r.m
         /\ doorPositions' = doorPositions \o r.placed
    /\ fpc' = "secret"
    /\ UNCHANGED <<rooms, floor, roomTry, connected, corridors, gpc>>
    /\ UNCHANGED <<difficulty, stairsPosition, potentialDoors, validPositions,
                   trapPositions, trapData>>
    /\ UNCHANGED <<fovVars, pathVars, carveVars, itemVars, queryVars>>

PlaceSecretDoors ==
    /\ fpc = "secret"
    /\ \E r \in DoorPass(map, potentialDoors, secretDoorCount(floor), "secret", SECRET_DOOR, <<>>) :
         /\ map' = r.m
         /\ doorPositions' = doorPositions \o r.placed
    /\ fpc' = "traps"
    /\ UNCHANGED <<rooms, floor, roomTry, connected, corridors, gpc>>
    /\ UNCHANGED <<difficulty, stairsPosition, potentialDoors, validPositions,
                   trapPositions, trapData>>
    /\ UNCHANGED <<fovVars, pathVars, carveVars, itemVars, queryVars>>

\* hasSpecialNeighbor: a door or the stairs on one of the four sides
hasSpecialNeighbor(m, c) ==
    LET neighbors == { <<c[1] + 1, c[2]>>, <<c[1] - 1, c[2]>>,
                       <<c[1], c[2] + 1>>, <<c[1], c[2] - 1>> }
    IN  \E pos \in neighbors \cap GenCells :
            At(m, pos) \in {DOOR, LOCKED_DOOR, SECRET_DOOR, STAIRS}

findValidTrapPositions(m) ==
    { c \in Interior : At(m, c) = FLOOR /\ ~hasSpecialNeighbor(m, c) }

\* baseCount = floor(3 + floor * 0.7),
\* trapCount = floor(baseCount * (1 + difficulty / 100))
trapCount(fl, diff) == FloorDiv(FloorDiv(30 + 7 * fl, 10) * (100 + diff), 100)

trapTypes == <<"spike", "poison", "alarm", "teleport", "confusion">>

\* getTrapType with the first test on `floor < 2`.
getTrapTypeFromDepthTwo(fl) ==
    IF fl < 2 THEN {trapTypes[1]}
    ELSE IF fl <= 5 THEN { trapTypes[k + 1] : k \in RandomBelow(2) }
    ELSE IF fl <= 8 THEN { trapTypes[k + 1] : k \in RandomBelow(3) }
    ELSE { trapTypes[k + 1] : k \in RandomBelow(Len(trapTypes)) }

\* getTrapType: the types it can return on a floor
getTrapType(fl) ==
    IF fl <= 2 THEN {trapTypes[1]}
    ELSE IF fl <= 5 THEN { trapTypes[k + 1] : k \in RandomBelow(2) }
    ELSE IF fl <= 8 THEN { trapTypes[k + 1] : k \in RandomBelow(3) }
    ELSE { trapTypes[k + 1] : k \in RandomBelow(Len(trapTypes)) }

\* placeTraps up to its loop: the valid positions are collected once.
PlaceTrapsBegin ==
    /\ fpc = "traps"
    /\ validPositions' = findValidTrapPositions(map)
    /\ trapPositions' = <<>>
    /\ fpc' = "trapping"
    /\ UNCHANGED genVars
    /\ UNCHANGED <<difficulty, stairsPosition, potentialDoors, doorPositions, trapData>>
    /\ UNCHANGED <<fovVars, pathVars, carveVars, itemVars, queryVars>>

\* One iteration of the loop of placeTraps; i is the number of records
\* pushed so far.  The hidden flag and the damage drawn for the trap do not
\* bear on where traps go or on their type and are not modelled.
PlaceTrap ==
    /\ fpc = "trapping"
    /\ Len(trapPositions) < trapCount(floor, difficulty)
    /\ validPositions # {}
    /\ \E pos \in validPositions, type \in getTrapType(floor) :
         /\ validPositions' = validPositions \ {pos}
         /\ map' = Stamp(map, pos, TRAP)
         /\ trapData' = (pos :> [type |-> type, triggered |-> FALSE]) @@ trapData
         /\ trapPositions' = Append(trapPositions,
                                    [x |-> pos[1], y |-> pos[2], type |-> type])
    /\ UNCHANGED <<rooms, floor, roomTry, connected, corridors, gpc>>
    /\ UNCHANGED <<difficulty, stairsPosition, potentialDoors, doorPositions, fpc>>
    /\ UNCHANGED <<fovVars, pathVars, carveVars, itemVars, queryVars>>

PlaceTrapsReturn ==
    /\ fpc = "trapping"
    /\ ~ (Len(trapPositions) < trapCount(floor, difficulty) /\ validPositions # {})
    /\ fpc' = "items"
    /\ UNCHANGED genVars
    /\ UNCHANGED <<difficulty, stairsPosition, potentialDoors, doorPositions,
                   validPositions, trapPositions, trapData>>
    /\ UNCHANGED <<fovVars, pathVars, carveVars, itemVars, queryVars>>

\* The levels the feature passes are run on, each as generateRooms and
\* connectRooms leave it: no room placed; one room of the minimum size; one
\* wider room; two rooms of the minimum size joined by a straight corridor.
ARoom == Room(1, 1, 3, 3)
BRoom == Room(8, 1, 3, 3)
WideRoom == Room(1, 1, 4, 3)
FeatureLevels ==
    { [rooms |-> <<>>, map |-> initializeMap, connected |-> <<>>, corridors |-> <<>>],
      [rooms |-> <<ARoom>>, map |-> carveRoom(initializeMap, ARoom),
       connected |-> <<>>, corridors |-> <<>>],
      [rooms |-> <<WideRoom>>, map |-> carveRoom(initializeMap, WideRoom),
       connected |-> <<>>, corridors |-> <<>>],
      [rooms |-> <<ARoom, BRoom>>,
       map |-> createElbowCorridor(carveRoom(carveRoom(initializeMap, ARoom), BRoom),
                                   ARoom.center[1], ARoom.center[2],
                                   BRoom.center[1], BRoom.center[2], TRUE),
       connected |-> <<1, 2>>, corridors |-> << <<1, 2>> >>] }

\* The floor depths and difficulties generateLevel is given.  The levels with
\* more floor tiles than one room of the minimum size are generated at depth 1
\* and difficulty 0 only.
FeatureFloors == {1, 2, 3}
Difficulties == {0, 25, 50}
FeatureInputs ==
    { in \in [level : FeatureLevels, floor : FeatureFloors, difficulty : Difficulties] :
        in.level.rooms \notin {<<>>, <<ARoom>>} => (in.floor = 1 /\ in.difficulty = 0) }

NoPosition == <<-1, -1>>
NoTrapData == [c \in {} |-> [type |-> "spike", triggered |-> FALSE]]

FeatStart ==
    /\ difficulty = 0
    /\ stairsPosition = NoPosition
    /\ potentialDoors = {}
    /\ doorPositions = <<>>
    /\ validPositions = {}
    /\ trapPositions = <<>>
    /\ trapData = NoTrapData
    /\ fpc = "idle"

FeatNext ==
    \/ PlaceStairs
    \/ PlaceRegularDoors
    \/ PlaceLockedDoors
    \/ PlaceSecretDoors
    \/ PlaceTrapsBegin
    \/ PlaceTrap
    \/ PlaceTrapsReturn

(***************************************************************************)
(* ItemPlacer                                                              *)
(***************************************************************************)
\* A loot pool argument: `given` is false for a missing one (undefined or
\* null), `list` holds the templates.
NoPool == [given |-> FALSE, list |-> <<>>]
EmptyPool == [given |-> TRUE, list |-> <<>>]

\* Templates of the pool.  A name is the sequence of its words; a template
\* has the stats and the nested bonuses object its kind of item has.
Sword == [name |-> <<"Sword">>, type |-> "weapon", damage |-> 2,
          bonuses |-> [strength |-> 1]]
Potion == [name |-> <<"Potion">>, type |-> "consumable"]
LootPools == { NoPool, EmptyPool, [given |-> TRUE, list |-> <<Sword, Potion>>] }

\* baseItemCount = 3 + floor(floor * 1.2),
\* itemCount = floor(baseItemCount * (difficulty / 50))
itemCount(fl, diff) == FloorDiv((3 + FloorDiv(fl * 12, 10)) * diff, 50)

\* findValidItemPositions with the tests of the tile's char left out.
findValidItemPositionsAnyTile(m, flags, traps) ==
    { c \in Interior : c \notin flags /\ c \notin DOMAIN traps }

\* findValidItemPositions: interior floor tiles with no item and no trapData
findValidItemPositions(m, flags, traps) ==
    { c \in Interior : At(m, c) = FLOOR /\ c \notin flags /\ c \notin DOMAIN traps }

\* A copy of a template that shares the template's nested objects: `shared`
\* names the fields of the copy that are the template's own objects.
ShallowCopy(template) ==
    [value |-> template, shared |-> {"bonuses"} \cap DOMAIN template]

\* JSON.parse(JSON.stringify(template)): strings, finite numbers and nested
\* objects of them come back as new values with the same content, and the
\* copy shares no object with the template.
JsonCopy(template) ==
    [value |-> [f \in DOMAIN template |->
                   IF f = "bonuses"
                   THEN [b \in DOMAIN template.bonuses |-> template.bonuses[b]]
                   ELSE template[f]],
     shared |-> {}]

\* r with field f set to v
SetField(r, f, v) == (f :> v) @@ r

\* qualityMultiplier, in hundredths: 1 + floor * 0.1 + (random * 0.4 - 0.2),
\* for five values of the random draw from one end of its range to the other.
QualityDraws(fl) == { 100 + 10 * fl + u : u \in {-20, -10, 0, 10, 19} }

bonusTypes == <<"strength", "defense", "speed", "maxHp">>
prefixes == <<"Fine", "Superior", "Exceptional", "Masterwork", "Legendary">>

Rescaled(item, stat, q) ==
    IF stat \in DOMAIN item /\ item[stat] # 0
    THEN SetField(item, stat, Max(1, FloorDiv(item[stat] * q, 100)))
    ELSE item

\* adjustItemQuality: the items it can leave, over the quality draw, the draw
\* for a special property and the bonus type.
adjustItemQuality(item, fl) ==
    LET scaled == { Rescaled(Rescaled(item, "damage", q), "defense", q) :
                      q \in QualityDraws(fl) }
        bonusAmount == Max(1, FloorDiv(fl, 3))
        prefix == prefixes[Min(FloorDiv(fl, 3), Len(prefixes) - 1) + 1]
        special(it, bonusType) ==
            LET bonuses == IF "bonuses" \in DOMAIN it THEN it.bonuses
                           ELSE [b \in {} |-> 0]
            IN  SetField(SetField(it, "bonuses", SetField(bonuses, bonusType, bonusAmount)),
                         "name", <<prefix>> \o it.name)
    IN  scaled \cup { special(it, bonusTypes[k]) : it \in scaled, k \in 1 .. Len(bonusTypes) }

\* The pool after the copy of template k was adjusted: a write through a
\* shared field of the copy is a write to the template.
PoolAfter(list, k, copy, adjusted) ==
    IF "bonuses" \in copy.shared
    THEN [list EXCEPT ![k] = SetField(list[k], "bonuses", adjusted.bonuses)]
    ELSE list

\* getRandomItem / getRandomItemOfType on template k, then the lines that
\* give the item its id and position, mark the tile and push the item.  The
\* id is random and unique; the model numbers the items.
PutItem(pos, k) ==
    LET copy == JsonCopy(lootPool.list[k])
    IN  \E adjusted \in adjustItemQuality(copy.value, floor) :
            LET item == SetField(SetField(SetField(adjusted, "id", Len(items) + 1),
                                          "x", pos[1]), "y", pos[2])
            IN  /\ items' = Append(items, item)
                /\ itemPositions' = Append(itemPositions,
                                           [x |-> pos[1], y |-> pos[2], item |-> item])
                /\ itemFlags' = itemFlags \cup {pos}
                /\ lootPool' = [lootPool EXCEPT
                                   !.list = PoolAfter(lootPool.list, k, copy, adjusted)]

NotPlacing == [validPositions |-> {}, i |-> 0]

\* The test at the head of placeItems with the length of the pool left out.
poolGiven(pool) == pool.given

\* The negation of `!lootPool || lootPool.length === 0`
poolUsable(pool) == pool.given /\ Len(pool.list) # 0

\* placeItems up to the three typed placements: an empty list is returned
\* for a missing or empty pool, and when no position is valid.
PlaceItemsBegin ==
    /\ fpc = "items"
    /\ items' = <<>>
    /\ itemPositions' = <<>>
    /\ IF ~poolUsable(lootPool)
       THEN /\ fpc' = "placed"
            /\ UNCHANGED placing
       ELSE LET valid == findValidItemPositions(map, itemFlags, trapData)
            IN  /\ placing' = [validPositions |-> valid, i |-> 0]
                /\ fpc' = IF valid = {} THEN "placed" ELSE "weapon"
    /\ UNCHANGED <<lootPool, itemFlags>>
    /\ UNCHANGED <<genVars, fovVars, pathVars, carveVars, queryVars>>
    /\ UNCHANGED <<difficulty, stairsPosition, potentialDoors, doorPositions,
                   validPositions, trapPositions, trapData>>

\* One of `if (Math.random() < p) this.placeItemOfType(..., type, ...)`:
\* the draw fails, or placeItemOfType returns at once, or it places an item.
PlaceItemOfType(stage, type, next) ==
    /\ fpc = stage
    /\ LET typeItems == { k \in 1 .. Len(lootPool.list) : lootPool.list[k].type = type }
       IN  \/ UNCHANGED itemVars
           \/ /\ placing.validPositions # {}
              /\ typeItems # {}
              /\ \E pos \in placing.validPositions, k \in typeItems :
                   /\ placing' = [placing EXCEPT !.validPositions = @ \ {pos}]
                   /\ PutItem(pos, k)
    /\ fpc' = next
    /\ UNCHANGED <<genVars, fovVars, pathVars, carveVars, queryVars>>
    /\ UNCHANGED <<difficulty, stairsPosition, potentialDoors, doorPositions,
                   validPositions, trapPositions, trapData>>

PlaceWeapon == PlaceItemOfType("weapon", "weapon", "armor")
PlaceArmor == PlaceItemOfType("armor", "body_armor", "helmet")
PlaceHelmet == PlaceItemOfType("helmet", "helmet", "loop")

\* One iteration of the loop that places the remaining random items.
PlaceRandomItem ==
    /\ fpc = "loop"
    /\ placing.i < itemCount(floor, difficulty)
    /\ placing.validPositions # {}
    /\ \E pos \in placing.validPositions :
         /\ placing' = [validPositions |-> placing.validPositions \ {pos},
                        i |-> placing.i + 1]
         /\ IF Len(lootPool.list) = 0
            THEN \* getRandomItem returns null: `continue`
                 UNCHANGED <<lootPool, items, itemPositions, itemFlags>>
            ELSE \E k \in 1 .. Len(lootPool.list) : PutItem(pos, k)
    /\ UNCHANGED <<genVars, fovVars, pathVars, carveVars, queryVars>>
    /\ UNCHANGED featVars

PlaceItemsReturn ==
    /\ fpc = "loop"
    /\ ~ (placing.i < itemCount(floor, difficulty) /\ placing.validPositions # {})
    /\ fpc' = "placed"
    /\ UNCHANGED itemVars
    /\ UNCHANGED <<genVars, fovVars, pathVars, carveVars, queryVars>>
    /\ UNCHANGED <<difficulty, stairsPosition, potentialDoors, doorPositions,
                   validPositions, trapPositions, trapData>>

ItemStart ==
    /\ lootPool = NoPool
    /\ items = <<>>
    /\ itemPositions = <<>>
    /\ itemFlags = {}
    /\ placing = NotPlacing

ItemNext ==
    \/ PlaceItemsBegin
    \/ PlaceWeapon
    \/ PlaceArmor
    \/ PlaceHelmet
    \/ PlaceRandomItem
    \/ PlaceItemsReturn

TileChars == {WALL, FLOOR, STAIRS, DOOR, LOCKED_DOOR, SECRET_DOOR, TRAP}

(***************************************************************************)
(* MapGenerator                                                            *)
(***************************************************************************)
\* The scan of findStartPosition for the farthest tile: tile k of the two
\* loops (rows, then columns) is <<k % width, k \div width>>.  A tile
\* replaces the one kept only when it is strictly farther from the stairs, so
\* the first of the farthest tiles whose char is in `open` is kept, and
\* <<0, 0>> at distance 0 when no such tile is at a distance above 0.
FarthestTile(m, stairsPos, open) ==
    LET cell(k) == <<k % GenWidth, k \div GenWidth>>
        distance(k) == Abs(cell(k)[1] - stairsPos[1]) + Abs(cell(k)[2] - stairsPos[2])
        found == { k \in 0 .. (GenWidth * GenHeight - 1) :
                     At(m, cell(k)) \in open /\ distance(k) > 0 }
    IN  IF found = {}
        THEN [pos |-> <<0, 0>>, distance |-> 0]
        ELSE LET k == CHOOSE i \in found :
                          \A j \in found :
                              distance(j) < distance(i)
                                  \/ (distance(j) = distance(i) /\ i <= j)
             IN  [pos |-> cell(k), distance |-> distance(k)]

StartPositionAmong(m, stairsPos, open) ==
    LET farthestTile == FarthestTile(m, stairsPos, open)
        floors == { k \in 0 .. (GenWidth * GenHeight - 1) :
                      At(m, <<k % GenWidth, k \div GenWidth>>) = FLOOR }
    IN  IF farthestTile.distance > 0 THEN farthestTile.pos
        ELSE IF floors # {}
             THEN LET k == CHOOSE j \in floors : \A i \in floors : j <= i
                  IN  <<k % GenWidth, k \div GenWidth>>
             ELSE <<1, 1>>

\* findStartPosition with every tile that is not a wall taken for a floor tile
findStartPositionOnOpenTile(m, stairsPos) == 
    StartPositionAmong(m, stairsPos, TileChars \ {WALL})

\* findStartPosition(map, stairsPos)
findStartPosition(m, stairsPos) == StartPositionAmong(m, stairsPos, {FLOOR})

\* generateLevel from the return of placeItems to its own return
FindStartPosition ==
    /\ fpc = "placed"
    /\ startPos' = findStartPosition(map, stairsPosition)
    /\ fpc' = "returned"
    /\ UNCHANGED <<thisTile, tileAnswer, sight, smoothed, queue, queueOp>>
    /\ UNCHANGED <<genVars, fovVars, pathVars, carveVars, itemVars>>
    /\ UNCHANGED <<difficulty, stairsPosition, potentialDoors, doorPositions,
                   validPositions, trapPositions, trapData>>

(***************************************************************************)
(* PathFinder: line of sight                                               *)
(***************************************************************************)
\* tile.transparent, as getLineOfSight reads it
transparent(tile) == tile # WALL

\* The while loop of getLineOfSight from the position (x0, y0) with the error
\* term err on; testEnd says whether the end position is tested as well.
RECURSIVE LineLoop(_, _, _, _, _, _, _, _)
LineLoop(m, start, end, x0, y0, err, path, testEnd) ==
    LET dx == Abs(end[1] - start[1])
        dy == Abs(end[2] - start[2])
        sx == IF start[1] < end[1] THEN 1 ELSE -1
        sy == IF start[2] < end[2] THEN 1 ELSE -1
        pushed == Append(path, <<x0, y0>>)
        blocked == /\ <<x0, y0>> # start
                   /\ \/ ~isInBounds(m, x0, y0)
                      \/ ~transparent(getTile(m, x0, y0))
        e2 == 2 * err
        stepX == e2 > -dy
        stepY == e2 < dx
    IN  IF <<x0, y0>> = end /\ ~(testEnd /\ blocked)
        THEN [isNull |-> FALSE, path |-> pushed]
        ELSE IF blocked \/ <<x0, y0>> = end
        THEN NoPath
        ELSE LineLoop(m, start, end,
                      IF stepX THEN x0 + sx ELSE x0,
                      IF stepY THEN y0 + sy ELSE y0,
                      (IF stepX THEN err - dy ELSE err) + (IF stepY THEN dx ELSE 0),
                      pushed, testEnd)

LineFrom(m, start, end, testEnd) ==
    LineLoop(m, start, end, start[1], start[2],
             Abs(end[1] - start[1]) - Abs(end[2] - start[2]), <<>>, testEnd)

\* getLineOfSight with the end position tested like the positions before it
getLineOfSightTestingEnd(m, start, end) == LineFrom(m, start, end, TRUE)

\* getLineOfSight(startX, startY, endX, endY) on the map m
getLineOfSight(m, start, end) == LineFrom(m, start, end, FALSE)

hasLineOfSight(m, start, end) == ~getLineOfSight(m, start, end).isNull

\* The positions getLineOfSight is called with: the cells of the grid and
\* two positions left of it.
SightPoints == PathCells \cup { <<-2, 0>>, <<-1, 1>> }

NotLooked == [asked |-> FALSE, start |-> <<0, 0>>, end |-> <<0, 0>>, result |-> NoPath]

GetLineOfSight ==
    /\ \E start \in SightPoints, end \in SightPoints :
         sight' = [asked |-> TRUE, start |-> start, end |-> end,
                   result |-> getLineOfSight(pathMap, start, end)]
    /\ UNCHANGED <<thisTile, tileAnswer, startPos, smoothed, queue, queueOp>>
    /\ UNCHANGED <<genVars, fovVars, pathVars, carveVars, featVars, itemVars>>

SightNext == GetLineOfSight

(***************************************************************************)
(* PathFinder: path smoothing                                              *)
(***************************************************************************)
\* The for loop of findSmoothPath from index i on; indices are those of the
\* source, rawPath[i] of the source being rawPath[i + 1] here.
RECURSIVE FurthestVisible(_, _, _, _, _)
FurthestVisible(m, rawPath, currentIndex, i, furthestVisible) ==
    IF i < Len(rawPath)
    THEN IF hasLineOfSight(m, rawPath[currentIndex + 1], rawPath[i + 1])
         THEN FurthestVisible(m, rawPath, currentIndex, i + 1, i)
         ELSE furthestVisible
    ELSE furthestVisible

\* The while loop of findSmoothPath.
RECURSIVE SmoothLoop(_, _, _, _)
SmoothLoop(m, rawPath, currentIndex, smoothedPath) ==
    IF currentIndex < Len(rawPath) - 1
    THEN LET furthestVisible ==
                 FurthestVisible(m, rawPath, currentIndex, currentIndex + 2,
                                 currentIndex + 1)
         IN  IF furthestVisible # currentIndex
             THEN SmoothLoop(m, rawPath, furthestVisible,
                             Append(smoothedPath, rawPath[furthestVisible + 1]))
             ELSE SmoothLoop(m, rawPath, currentIndex + 1,
                             IF currentIndex + 1 < Len(rawPath)
                             THEN Append(smoothedPath, rawPath[currentIndex + 2])
                             ELSE smoothedPath)
    ELSE smoothedPath

\* findSmoothPath after findPath has returned raw
smoothPath(m, raw) ==
    IF raw.isNull THEN NoPath
    ELSE IF Len(raw.path) <= 2 THEN raw
    ELSE [isNull |-> FALSE,
          path |-> SmoothLoop(m, raw.path, 0, <<raw.path[1]>>)]

\* findSmoothPath: its call of findPath has returned; the path is smoothed
\* and returned.
FindSmoothPathReturn ==
    /\ ppc = "returned"
    /\ pathMap # NoMap
    /\ smoothed' = smoothPath(pathMap, result)
    /\ ppc' = "smoothed"
    /\ UNCHANGED <<pathMap, options, entityMap, call, prevOptions, openSet,
                   closedSet, gScore, cameFrom, iterations, result>>
    /\ UNCHANGED <<thisTile, tileAnswer, startPos, sight, queue, queueOp>>
    /\ UNCHANGED <<genVars, fovVars, carveVars, featVars, itemVars>>

SmoothNext ==
    \/ FindPathBegin
    \/ FindPathIterate
    \/ FindPathExhausted
    \/ SetOptions
    \/ UpdateEntityMap
    \/ FindSmoothPathReturn

(***************************************************************************)
(* PriorityQueue driven directly                                           *)
(***************************************************************************)
\* The values 1 .. QueueValues and the priorities 0 .. QueueMaxPriority are
\* used; at most QueueValues values are in the queue at a time.
QueueValues == 4
QueueMaxPriority == 2
QueuePriorities == { [p |-> n, q |-> 0] : n \in 0 .. QueueMaxPriority }

\* queueOp.held maps the values enqueued and not yet returned by dequeue to
\* their current priority; queueOp.before is held as it was before a
\* dequeue; returned = 0 stands for null.
NoHeld == [v \in {} |-> [p |-> 0, q |-> 0]]
NoQueueOp == [op |-> "none", returned |-> 0, held |-> NoHeld, before |-> NoHeld]

QueueEnqueue ==
    /\ \E value \in (1 .. QueueValues) \ DOMAIN queueOp.held :
         \E priority \in QueuePriorities :
           /\ queue' = enqueue(queue, value, priority)
           /\ queueOp' = [op |-> "enqueue", returned |-> 0,
                          held |-> (value :> priority) @@ queueOp.held,
                          before |-> NoHeld]
    /\ UNCHANGED <<thisTile, tileAnswer, startPos, sight, smoothed>>
    /\ UNCHANGED <<genVars, fovVars, pathVars, carveVars, featVars, itemVars>>

QueueDequeue ==
    /\ IF Len(queue) = 0
       THEN /\ queueOp' = [op |-> "dequeue", returned |-> 0,
                           held |-> queueOp.held, before |-> queueOp.held]
            /\ UNCHANGED queue
       ELSE LET d == dequeue(queue)
            IN  /\ queue' = d.values
                /\ queueOp' = [op |-> "dequeue", returned |-> d.value,
                               held |-> [v \in DOMAIN queueOp.held \ {d.value} |->
                                            queueOp.held[v]],
                               before |-> queueOp.held]
    /\ UNCHANGED <<thisTile, tileAnswer, startPos, sight, smoothed>>
    /\ UNCHANGED <<genVars, fovVars, pathVars, carveVars, featVars, itemVars>>

QueueUpdatePriority ==
    /\ \E value \in 1 .. QueueValues : \E newPriority \in QueuePriorities :
         /\ queue' = updatePriority(queue, value, newPriority)
         /\ queueOp' = [op |-> "updatePriority", returned |-> 0,
                        held |-> IF value \in DOMAIN queueOp.held
                                 THEN [queueOp.held EXCEPT ![value] = newPriority]
                                 ELSE queueOp.held,
                        before |-> NoHeld]
    /\ UNCHANGED <<thisTile, tileAnswer, startPos, sight, smoothed>>
    /\ UNCHANGED <<genVars, fovVars, pathVars, carveVars, featVars, itemVars>>

QueueNext ==
    \/ QueueEnqueue
    \/ QueueDequeue
    \/ QueueUpdatePriority

(***************************************************************************)
(* Tile                                                                    *)
(***************************************************************************)
\* The tiles the methods are called on: any char, with any of the flags a
\* generated and explored level sets; trapData is TRUE for a tile that has one.
Tiles ==
    [char : TileChars, discovered : BOOLEAN, visible : BOOLEAN,
     hidden : BOOLEAN, trapData : BOOLEAN]

\* new Tile(): a wall with no flag set
NewTile ==
    [char |-> WALL, discovered |-> FALSE, visible |-> FALSE,
     hidden |-> FALSE, trapData |-> FALSE]

\* Tile.isBlocking
isBlocking(t) == t.char = WALL

\* Tile.isWalkable
Tile_isWalkable(t) == ~isBlocking(t) /\ t.char # TRAP

NotAsked == [method |-> "none", value |-> FALSE]

TileIsBlocking ==
    /\ tileAnswer' = [method |-> "isBlocking", value |-> isBlocking(thisTile)]
    /\ UNCHANGED <<thisTile, startPos, sight, smoothed, queue, queueOp>>
    /\ UNCHANGED <<genVars, fovVars, pathVars, carveVars, featVars, itemVars>>

TileBlocksVision ==
    /\ tileAnswer' = [method |-> "blocksVision", value |-> blocksVision(thisTile.char)]
    /\ UNCHANGED <<thisTile, startPos, sight, smoothed, queue, queueOp>>
    /\ UNCHANGED <<genVars, fovVars, pathVars, carveVars, featVars, itemVars>>

TileIsWalkable ==
    /\ tileAnswer' = [method |-> "isWalkable", value |-> Tile_isWalkable(thisTile)]
    /\ UNCHANGED <<thisTile, startPos, sight, smoothed, queue, queueOp>>
    /\ UNCHANGED <<genVars, fovVars, pathVars, carveVars, featVars, itemVars>>

QueryStart ==
    /\ thisTile = NewTile /\ tileAnswer = NotAsked /\ startPos = NoPosition
    /\ sight = NotLooked /\ smoothed = NoPath
    /\ queue = <<>> /\ queueOp = NoQueueOp

TileNext ==
    \/ TileIsBlocking
    \/ TileBlocksVision
    \/ TileIsWalkable

(***************************************************************************)
(* Specifications                                                          *)
(***************************************************************************)
\* A subsystem that a specification does not run stays as constructed.
GenIdle == GenStart /\ floor = 1 /\ CarveStart /\ FeatStart /\ ItemStart /\ QueryStart
FovIdle == FovStart /\ fovMap = FovGrid({})
PathIdle == PathStart /\ pathMap = NoMap /\ QueryStart

GenInit ==
    /\ GenStart /\ floor \in Floors /\ CarveStart /\ FeatStart /\ ItemStart
    /\ FovIdle /\ PathIdle
SpecGen == GenInit /\ [][GenNext]_vars

\* hCorridor, vCorridor, createElbowCorridor and createZigzagCorridor called
\* on a grid, and the same call repeated.
CarveInit ==
    /\ map \in CarveGrids /\ rooms = <<>> /\ roomTry = 0 /\ connected = <<>>
    /\ corridors = <<>> /\ gpc = "rooms" /\ floor = 1
    /\ carveBefore = map /\ carveLast = NoCorridor
    /\ FeatStart /\ ItemStart /\ FovIdle /\ PathIdle

\* generateLevel from placeStairs to the return of placeTraps, on a level
\* that generateRooms and connectRooms have left.
FeatInit ==
    /\ \E in \in FeatureInputs :
         /\ map = in.level.map /\ rooms = in.level.rooms
         /\ connected = in.level.connected /\ corridors = in.level.corridors
         /\ floor = in.floor /\ difficulty = in.difficulty
    /\ roomTry = RoomAttempts(floor) /\ gpc = "done"
    /\ stairsPosition = NoPosition /\ potentialDoors = {} /\ doorPositions = <<>>
    /\ validPositions = {} /\ trapPositions = <<>> /\ trapData = NoTrapData
    /\ fpc = "stairs"
    /\ CarveStart /\ ItemStart /\ FovIdle /\ PathIdle
SpecFeatures == FeatInit /\ [][FeatNext]_vars

\* Levels as placeTraps leaves them at depth 1: the level without a room,
\* with the stairs on the fallback tile, and the level of one room with the
\* stairs in its middle and three of its corners trapped.
SpikeAt(c) == [x |-> c[1], y |-> c[2], type |-> "spike"]
TrappedCorners == << <<1, 1>>, <<3, 1>>, <<1, 3>> >>
ItemLevels ==
    { [rooms |-> <<>>,
       map |-> Stamp(initializeMap, <<GenWidth - 2, GenHeight - 2>>, STAIRS),
       stairsPosition |-> <<GenWidth - 2, GenHeight - 2>>,
       validPositions |-> {}, trapPositions |-> <<>>, trapData |-> NoTrapData],
      [rooms |-> <<ARoom>>,
       map |-> Stamp(Stamp(Stamp(Stamp(carveRoom(initializeMap, ARoom), <<2, 2>>, STAIRS),
                                 TrappedCorners[1], TRAP), TrappedCorners[2], TRAP),
                     TrappedCorners[3], TRAP),
       stairsPosition |-> <<2, 2>>,
       validPositions |-> { <<3, 3>> },
       trapPositions |-> [k \in 1 .. 3 |-> SpikeAt(TrappedCorners[k])],
       trapData |-> [c \in SeqRange(TrappedCorners) |->
                       [type |-> "spike", triggered |-> FALSE]]] }
ItemDifficulties == {0, 25}

\* generateLevel from `const items = []` to the return of placeItems.
ItemInit ==
    /\ \E level \in ItemLevels :
         /\ map = level.map /\ rooms = level.rooms
         /\ stairsPosition = level.stairsPosition
         /\ validPositions = level.validPositions
         /\ trapPositions = level.trapPositions
         /\ trapData = level.trapData
    /\ floor = 1 /\ difficulty \in ItemDifficulties
    /\ roomTry = RoomAttempts(floor) /\ connected = <<>> /\ corridors = <<>> /\ gpc = "done"
    /\ potentialDoors = {} /\ doorPositions = <<>>
    /\ fpc = "items"
    /\ lootPool \in LootPools
    /\ items = <<>> /\ itemPositions = <<>> /\ itemFlags = {} /\ placing = NotPlacing
    /\ CarveStart /\ FovIdle /\ PathIdle
SpecItems == ItemInit /\ [][ItemNext]_vars

\* The three queries of a Tile, called on a tile of any kind.
TileInit ==
    /\ thisTile \in Tiles /\ tileAnswer = NotAsked /\ startPos = NoPosition
    /\ sight = NotLooked /\ smoothed = NoPath /\ queue = <<>> /\ queueOp = NoQueueOp
    /\ GenStart /\ floor = 1 /\ CarveStart /\ FeatStart /\ ItemStart
    /\ FovIdle /\ PathStart /\ pathMap = NoMap
SpecTile == TileInit /\ [][TileNext]_vars

\* generateLevel from the return of connectRooms to its own return.  The
\* level has a room: on the MAP.WIDTH x MAP.HEIGHT grid every x and y that
\* generateRoom draws keeps the room inside the bounds canPlaceRoom tests, so
\* the first attempt of generateRooms, made on a grid of walls, places its
\* room.
\* A loot pool is handed over for the level of one room of the minimum size
\* at depth 1: a weapon and a potion at difficulty 0, a potion at difficulty
\* 25 (two random items).  Otherwise placeItems gets no pool and returns at
\* once.
LevelPools ==
    { NoPool, [given |-> TRUE, list |-> <<Sword, Potion>>],
      [given |-> TRUE, list |-> <<Potion>>] }
LevelInputs ==
    { in \in [level : FeatureLevels, floor : FeatureFloors, difficulty : Difficulties,
              lootPool : LevelPools] :
        /\ in.level.rooms # <<>>
        /\ [level |-> in.level, floor |-> in.floor, difficulty |-> in.difficulty]
               \in FeatureInputs
        /\ in.lootPool # NoPool =>
               /\ in.level.rooms = <<ARoom>> /\ in.floor = 1
               /\ in.difficulty = (IF Len(in.lootPool.list) = 1 THEN 25 ELSE 0) }
LevelInit ==
    /\ \E in \in LevelInputs :
         /\ map = in.level.map /\ rooms = in.level.rooms
         /\ connected = in.level.connected /\ corridors = in.level.corridors
         /\ floor = in.floor /\ difficulty = in.difficulty
         /\ lootPool = in.lootPool
    /\ roomTry = RoomAttempts(floor) /\ gpc = "done"
    /\ stairsPosition = NoPosition /\ potentialDoors = {} /\ doorPositions = <<>>
    /\ validPositions = {} /\ trapPositions = <<>> /\ trapData = NoTrapData
    /\ fpc = "stairs"
    /\ items = <<>> /\ itemPositions = <<>> /\ itemFlags = {} /\ placing = NotPlacing
    /\ CarveStart /\ FovIdle /\ PathIdle
LevelNext ==
    \/ PlaceStairs
    \/ PlaceRegularDoors
    \/ PlaceLockedDoors
    \/ PlaceSecretDoors
    \/ PlaceTrapsBegin
    \/ PlaceTrap
    \/ PlaceTrapsReturn
    \/ PlaceItemsBegin
    \/ PlaceWeapon
    \/ PlaceArmor
    \/ PlaceHelmet
    \/ PlaceRandomItem
    \/ PlaceItemsReturn
    \/ FindStartPosition
SpecLevel == LevelInit /\ [][LevelNext]_vars

\* getLineOfSight on each of the grids, between any two positions.
SightInit ==
    /\ PathStart /\ pathMap \in PathLayouts
    /\ GenIdle /\ FovIdle
SpecSight == SightInit /\ [][SightNext]_vars

\* findSmoothPath: findPath as in SpecPath, then the smoothing.
\* The grids of SpecPath and one with two single walls, at <<1, 0>> and at
\* <<2, 2>>.
SmoothLayouts == PathLayouts \cup { PathGrid(<<1, 0>> :> WALL @@ <<2, 2>> :> WALL) }
SmoothInit == PathStart /\ pathMap \in SmoothLayouts /\ GenIdle /\ FovIdle
SpecSmooth == SmoothInit /\ [][SmoothNext]_vars

\* A new PriorityQueue and any sequence of calls on it.
QueueInit == GenIdle /\ FovIdle /\ PathIdle
SpecQueue == QueueInit /\ [][QueueNext]_vars
SpecCarve == CarveInit /\ [][CarveNext]_vars

FovInit ==
    /\ FovStart /\ (\E walls \in FovWallSets : fovMap = FovGrid(walls))
    /\ GenIdle /\ PathIdle
SpecFov == FovInit /\ [][FovNext]_vars

\* Calls of calculate and resetVisibility with the grid edited or exchanged
\* between them.
SpecFovEdit == FovInit /\ [][FovEditNext]_vars

\* One call of calculate on a new FOV and an unseen grid.
FovOnceNext == FovCalculateFirst
SpecFovOnce == FovInit /\ [][FovOnceNext]_vars

\* findPath is a synchronous call: once entered, its loop runs until the
\* call returns.  FindPathRuns is the step a search in progress takes, as
\* seen on ppc and iterations: FindPathIterate or FindPathExhausted, whose
\* guards are complementary, so that one of them is enabled in every state
\* with ppc = "searching".
FindPathRuns ==
    /\ ppc = "searching"
    /\ \/ iterations' = iterations + 1 /\ ppc' \in {"searching", "returned"}
       \/ iterations' = iterations /\ ppc' = "returned"
PathInit == PathStart /\ pathMap \in PathLayouts \cup {NoMap} /\ GenIdle /\ FovIdle
SpecPath ==
    /\ PathInit /\ [][PathNext]_vars
    /\ WF_<<ppc, iterations>>(FindPathRuns)

(***************************************************************************)
(* Properties of generation                                                *)
(***************************************************************************)
Neighbours4(c) ==
    { <<c[1] + 1, c[2]>>, <<c[1] - 1, c[2]>>, <<c[1], c[2] + 1>>, <<c[1], c[2] - 1>> }

\* The floor cells joined to the cells of `frontier` by a 4-connected path
\* of floor cells of m; `seen` holds the cells already collected.
RECURSIVE FloorFill(_, _, _)
FloorFill(m, frontier, seen) ==
    IF frontier = {} THEN seen
    ELSE LET next == { c \in (UNION { Neighbours4(f) : f \in frontier }) \cap GenCells :
                         c \notin seen /\ At(m, c) = FLOOR }
         IN  FloorFill(m, next, seen \cup next)

FloorReachable(m, from) ==
    IF At(m, from) = FLOOR THEN FloorFill(m, {from}, {from}) ELSE {}

\* The cells of a room's rectangle, and of the rectangle enlarged by one
\* tile on every side.
RoomCells(r) == (r.x .. (r.x + r.width - 1)) \X (r.y .. (r.y + r.height - 1))
RoomCellsWithMargin(r) == ((r.x - 1) .. (r.x + r.width)) \X ((r.y - 1) .. (r.y + r.height))

\* C1: once connectRooms has returned on two or more rooms, the center of
\* every room is joined to the center of every other room by a 4-connected
\* path of floor tiles.
C1_AllRoomCentersJoined ==
    (gpc = "done" /\ Len(rooms) >= 2) =>
        \A a \in 1 .. Len(rooms) :
            \A b \in 1 .. Len(rooms) :
                rooms[b].center \in FloorReachable(map, rooms[a].center)

\* C12: once connectRooms has returned on a level of exactly two rooms, the
\* centers of the two rooms are joined by a 4-connected path of floor tiles,
\* whichever corridor style and draws createCorridor took.
C12_TwoRoomsJoined ==
    (gpc = "done" /\ Len(rooms) = 2) =>
        /\ rooms[2].center \in FloorReachable(map, rooms[1].center)
        /\ rooms[1].center \in FloorReachable(map, rooms[2].center)

\* connectRooms has returned on two rooms whose centers lie on different
\* rows and at least six columns apart, with one corridor between them.
C12_Witness ==
    /\ gpc = "done" /\ Len(rooms) = 2
    /\ corridors = << <<1, 2>> >>
    /\ rooms[1].center[2] # rooms[2].center[2]
    /\ Abs(rooms[1].center[1] - rooms[2].center[1]) >= 6

\* C2: for any two distinct rooms of the room list, the rectangle of one
\* does not meet the rectangle of the other enlarged by one tile on every
\* side.
C2_RoomsKeepMargin ==
    \A a \in 1 .. Len(rooms) :
        \A b \in 1 .. Len(rooms) :
            a # b => RoomCells(rooms[a]) \cap RoomCellsWithMargin(rooms[b]) = {}

\* C2 witness: generateRooms has returned a list with two rooms exactly one
\* wall tile apart.
C2_Witness ==
    /\ gpc = "connect"
    /\ \E a \in 1 .. Len(rooms) :
         \E b \in 1 .. Len(rooms) :
            rooms[b].x = rooms[a].x + rooms[a].width + 1

\* C25: in every pass of the while loop of connectRooms, each room the pass
\* adds to the connected set gets, in that pass, a corridor carved between
\* its center and the center of a room that was connected before the pass.
C25_AddedRoomGetsCorridor ==
    [][gpc = "connecting" =>
          \A j \in SeqRange(connected') \ SeqRange(connected) :
              \E k \in (Len(corridors) + 1) .. Len(corridors') :
                  /\ corridors'[k][2] = j
                  /\ corridors'[k][1] \in SeqRange(connected)]_vars

(***************************************************************************)
(* Properties of corridor carving                                          *)
(***************************************************************************)
\* C11: a carving method (hCorridor, vCorridor, createElbowCorridor,
\* createZigzagCorridor) changes a tile only when that tile is a wall, and then
\* to floor; every tile that is not a wall is left as it was; and carving the
\* same corridor a second time leaves the grid unchanged.
C11_CarvingOnlyOpensWalls ==
    carveLast.kind # "none" =>
        /\ \A c \in GenCells :
              At(map, c) # At(carveBefore, c) =>
                  At(carveBefore, c) = WALL /\ At(map, c) = FLOOR
        /\ carveLast.again => map = carveBefore

\* A zigzag was carved twice along the row of the door, from the room to
\* beyond the right edge: the door stands, with floor on either side.
C11_Witness ==
    /\ carveLast.kind = "zigzag" /\ carveLast.again
    /\ carveLast.a = <<1, 1>> /\ carveLast.b = <<GenWidth, 1>>
    /\ At(map, <<5, 1>>) = DOOR
    /\ At(map, <<4, 1>>) = FLOOR /\ At(map, <<6, 1>>) = FLOOR
    /\ At(map, <<GenWidth - 1, 1>>) = FLOOR

(***************************************************************************)
(* Properties of stairs, doors and traps                                   *)
(***************************************************************************)
\* The tiles that were valid trap positions when placeTraps began, read off
\* the grid it left: interior tiles that are floor or trap and have no door
\* or stairs on a side.
WereValidForTraps ==
    { c \in Interior :
        /\ At(map, c) \in {FLOOR, TRAP}
        /\ \A n \in Neighbours4(c) \cap GenCells :
              At(map, n) \notin {DOOR, LOCKED_DOOR, SECRET_DOOR, STAIRS} }

TrapTiles == { c \in GenCells : At(map, c) = TRAP }

\* C13: on a floor of depth 2 or less every trap placeTraps stamps is of type
\* 'spike', in its record and in the trapData of its tile; and at depth 1 and
\* difficulty 0 placeTraps returns with exactly 3 traps stamped whenever the
\* level had at least 3 valid tiles for traps.
C13_ShallowTrapsAreSpikes ==
    /\ (fpc \in {"trapping", "items"} /\ floor <= 2) =>
          /\ \A k \in 1 .. Len(trapPositions) : trapPositions[k].type = "spike"
          /\ \A c \in DOMAIN trapData : trapData[c].type = "spike"
    /\ (fpc = "items" /\ floor = 1 /\ difficulty = 0
          /\ Cardinality(WereValidForTraps) >= 3) =>
          /\ Len(trapPositions) = 3
          /\ Cardinality(TrapTiles) = 3

\* placeTraps has returned at depth 2 with all four free corners of the one
\* room trapped.
C13_Witness ==
    /\ fpc = "items" /\ floor = 2 /\ difficulty = 0
    /\ Len(trapPositions) = 4
    /\ TrapTiles = {<<1, 1>>, <<3, 1>>, <<1, 3>>, <<3, 3>>}

\* The tiles the stairs, door and trap records refer to, in the order stairs,
\* doors, traps.
StampedCells ==
    (IF stairsPosition = NoPosition THEN <<>> ELSE <<stairsPosition>>)
        \o [k \in 1 .. Len(doorPositions) |-> <<doorPositions[k].x, doorPositions[k].y>>]
        \o [k \in 1 .. Len(trapPositions) |-> <<trapPositions[k].x, trapPositions[k].y>>]

DoorChar(type) ==
    IF type = "regular" THEN DOOR ELSE IF type = "locked" THEN LOCKED_DOOR ELSE SECRET_DOOR

ItemCell(k) == <<itemPositions[k].x, itemPositions[k].y>>

\* C18: every item record of placeItems lies on a tile that is plain floor
\* and has no trapData; the item of the record carries the record's position;
\* no two records share a tile (so no record is on a tile that held an item);
\* and a tile has its item flag set exactly when a record points at it.
C18_ItemsOnFreeFloor ==
    /\ \A k \in 1 .. Len(itemPositions) :
          /\ ItemCell(k) \in GenCells
          /\ At(map, ItemCell(k)) = FLOOR
          /\ ItemCell(k) \notin DOMAIN trapData
          /\ <<itemPositions[k].item.x, itemPositions[k].item.y>> = ItemCell(k)
    /\ \A j \in 1 .. Len(itemPositions) :
          \A k \in 1 .. Len(itemPositions) : j # k => ItemCell(j) # ItemCell(k)
    /\ itemFlags = { ItemCell(k) : k \in 1 .. Len(itemPositions) }
    /\ Len(items) = Len(itemPositions)
    /\ \A k \in 1 .. Len(items) : items[k] = itemPositions[k].item

\* placeItems has returned in the trapped room with a weapon and two more
\* items placed.
C18_Witness ==
    /\ fpc = "placed"
    /\ Len(trapPositions) = 3
    /\ Len(itemPositions) = 3
    /\ itemPositions[1].item.type = "weapon"

\* C19: placeItems called with a missing or an empty loot pool returns an
\* empty position list, places no item, and leaves the grid, the item flags
\* of its tiles and the items list as they were.
C19_NoPoolNoItems ==
    [][ (fpc = "items" /\ (~lootPool.given \/ lootPool.list = <<>>)) =>
            /\ fpc' = "placed"
            /\ itemPositions' = <<>>
            /\ items' = items
            /\ map' = map /\ itemFlags' = itemFlags /\ trapData' = trapData ]_vars

\* placeItems has returned for an empty pool, at a difficulty that asks for
\* two items, in a room with floor tiles free for them.
C19_Witness ==
    /\ fpc = "placed"
    /\ lootPool = EmptyPool
    /\ difficulty = 25
    /\ At(map, <<2, 1>>) = FLOOR
    /\ items = <<>> /\ itemPositions = <<>> /\ itemFlags = {}

\* C20: no step of placeItems changes the loot pool: every template stays
\* as it was, whatever rescaling, bonus and prefix the placed copies got.
C20_PoolUntouched ==
    [][ lootPool' = lootPool ]_vars

\* A copy of the sword template was placed with its damage scaled down, a
\* speed bonus added to its bonuses and a prefix put before its name.
C20_Witness ==
    /\ fpc = "placed"
    /\ \E k \in 1 .. Len(items) :
         /\ items[k].type = "weapon"
         /\ items[k].damage = 1
         /\ items[k].name = <<"Fine", "Sword">>
         /\ items[k].bonuses = [strength |-> 1, speed |-> 1]

(***************************************************************************)
(* Properties of the generated level                                       *)
(***************************************************************************)
\* C23: the start position generateLevel returns is inside the grid, on a
\* tile that is a plain floor tile in the finished grid, and is not the
\* stairs position it returns, at every floor depth and difficulty.
C23_StartOnFloorAwayFromStairs ==
    fpc = "returned" =>
        /\ startPos \in GenCells
        /\ At(map, startPos) = FLOOR
        /\ startPos # stairsPosition

\* C23 witness: a level is returned that has traps and an item, and more
\* than one floor tile is left in it.
C23_Witness ==
    /\ fpc = "returned"
    /\ Len(trapPositions) > 0
    /\ Len(items) > 0
    /\ Cardinality({ c \in GenCells : At(map, c) = FLOOR }) > 1

(***************************************************************************)
(* Properties of tiles                                                     *)
(***************************************************************************)
\* C21: what a tile answers depends on its terrain kind alone, and by kind: a
\* wall blocks movement and vision and is not walkable, an unlocked door
\* blocks neither and is walkable, and a trap is walkable (isWalkable is
\* true for it) and blocks neither.
C21_PassabilityByKind ==
    LET asked(method) == tileAnswer.method = method
    IN  /\ thisTile.char = WALL =>
              /\ asked("isBlocking") => tileAnswer.value
              /\ asked("blocksVision") => tileAnswer.value
              /\ asked("isWalkable") => ~tileAnswer.value
        /\ thisTile.char = DOOR =>
              /\ asked("isBlocking") => ~tileAnswer.value
              /\ asked("blocksVision") => ~tileAnswer.value
              /\ asked("isWalkable") => tileAnswer.value
        /\ thisTile.char = TRAP =>
              /\ asked("isBlocking") => ~tileAnswer.value
              /\ asked("blocksVision") => ~tileAnswer.value
              /\ asked("isWalkable") => tileAnswer.value

(***************************************************************************)
(* Properties of the field of view                                         *)
(***************************************************************************)
\* calculate has returned (it did not throw), with visibleTiles as its result.
FovReturned == fovOp.how \in {"computed", "cached"}

\* C3: after any sequence of calculate and resetVisibility calls on a grid
\* whose tiles start not visible and not discovered, every visible tile is
\* discovered.
C3_VisibleImpliesDiscovered == visible \subseteq discovered

\* C3 witness: a calculate that followed a resetVisibility has left some
\* tiles visible and others discovered but not visible.
C3_Witness ==
    /\ fovOp.how = "computed"
    /\ fovOp.calls = 3
    /\ visible # {}
    /\ discovered \ visible # {}

\* C4: whenever calculate returns for an origin in the grid, every
\* coordinate of the returned collection is marked visible and discovered,
\* also when the call repeats the origin and radius of the call before a
\* resetVisibility.
C4_ReturnedTilesMarked ==
    (FovReturned /\ lastPlayerPos \in FovCells) =>
        \A k \in 1 .. Len(visibleTiles) :
            visibleTiles[k] \in visible /\ visibleTiles[k] \in discovered

\* The cells within the radius of the last call, whatever stands on them.
FovDisk ==
    { c \in FovCells :
        (c[1] - lastPlayerPos[1]) * (c[1] - lastPlayerPos[1])
          + (c[2] - lastPlayerPos[2]) * (c[2] - lastPlayerPos[2])
            <= lastRadius * lastRadius }

\* C5: for an origin in a grid with no vision-blocking tile within range and
\* a radius R >= 1, a fresh calculate returns exactly the in-bounds
\* coordinates within distance R of the origin.
C5_OpenAreaIsDisk ==
    ( /\ fovOp.how = "computed"
      /\ lastRadius >= 1
      /\ \A c \in FovDisk : ~ blocksVision(At(fovMap, c)) )
    => SeqRange(visibleTiles) = FovDisk

\* C5 witness: a fresh calculate of the largest radius from a corner of the
\* open grid, whose disk is cut by the grid's border and leaves cells out.
C5_Witness ==
    /\ fovOp.how = "computed"
    /\ lastRadius = FovMaxRadius
    /\ lastPlayerPos = <<0, 0>>
    /\ fovMap = FovGrid({})
    /\ SeqRange(visibleTiles) # FovCells
    /\ <<2, 1>> \in SeqRange(visibleTiles)

\* What calculate computes for an origin and a radius on the grid m.
FreshResult(m, a) == << <<a[1], a[2]>> >> \o CastOctants(m, a[1], a[2], a[3], 0)

\* C14: a call of calculate that follows another call returns the stored
\* list, with no tile marked, exactly when its origin and radius are those of
\* the preceding call, whatever was done to the grid in between; with another
\* origin or radius (and the origin on the grid) it computes the visible set
\* anew, on the grid as it now is.
C14_CacheKeyedOnOriginAndRadius ==
    [][ ( /\ fovOp'.calls = fovOp.calls + 1
          /\ fovOp'.how \in {"computed", "cached", "threw"}
          /\ fovOp.args # NoArgs ) =>
            /\ (fovOp'.how = "cached") <=> (fovOp'.args = fovOp.args)
            /\ fovOp'.how = "cached" =>
                  /\ visibleTiles' = visibleTiles
                  /\ visible' = visible /\ discovered' = discovered
            /\ ( /\ fovOp'.args # fovOp.args
                  /\ <<fovOp'.args[1], fovOp'.args[2]>> \in FovCells ) =>
                  /\ fovOp'.how = "computed"
                  /\ visibleTiles' = FreshResult(fovMap', fovOp'.args) ]_vars

\* A repeated call has returned the stored list for an origin on the grid
\* although, on the grid as it now is, a computation would give another list.
C14_Witness ==
    /\ fovOp.how = "cached"
    /\ <<fovOp.args[1], fovOp.args[2]>> \in FovCells
    /\ visibleTiles # FreshResult(fovMap, fovOp.args)

\* C15: a call of calculate with an origin outside the grid raises an error,
\* on every such call, a repeated one included, and leaves the cached origin,
\* the cached radius and the stored visible list as they were before the call.
C15_OutOfGridOriginRaises ==
    [][ ( /\ fovOp'.calls = fovOp.calls + 1
          /\ fovOp'.how \in {"computed", "cached", "threw"}
          /\ <<fovOp'.args[1], fovOp'.args[2]>> \notin FovCells ) =>
            /\ fovOp'.how = "threw"
            /\ lastPlayerPos' = lastPlayerPos
            /\ lastRadius' = lastRadius
            /\ visibleTiles' = visibleTiles ]_vars

\* C22: when calculate has computed a result (its origin or radius differs
\* from the call before), the tiles whose visible flag is set are exactly the
\* tiles of the returned collection: a tile seen only in an earlier call is
\* no longer marked visible.
C22_VisibleIsLastResult ==
    fovOp.how = "computed" => visible = SeqRange(visibleTiles)

\* The room that holds the origin of the last call: the cells joined to it by
\* orthogonal steps over tiles that do not block vision.
RECURSIVE FovRoomFill(_)
FovRoomFill(S) ==
    LET next == S \cup { c \in FovCells :
                            /\ ~blocksVision(At(fovMap, c))
                            /\ \E d \in S : Abs(c[1] - d[1]) + Abs(c[2] - d[2]) = 1 }
    IN  IF next = S THEN S ELSE FovRoomFill(next)

Around(c) == { d \in (c[1] - 1 .. c[1] + 1) \X (c[2] - 1 .. c[2] + 1) : d # c }

FovRoom == FovRoomFill({ <<fovOp.args[1], fovOp.args[2]>> })
FovRing == (UNION { Around(c) : c \in FovRoom }) \ FovRoom

\* The origin is in a rectangular room with a complete ring of walls around
\* it, all inside the grid.
InWalledRoom ==
    /\ <<fovOp.args[1], fovOp.args[2]>> \in FovCells
    /\ ~blocksVision(At(fovMap, <<fovOp.args[1], fovOp.args[2]>>))
    /\ \E x1, x2 \in 0 .. FovWidth - 1 : \E y1, y2 \in 0 .. FovHeight - 1 :
          FovRoom = (x1 .. x2) \X (y1 .. y2)
    /\ FovRing \subseteq FovCells
    /\ \A c \in FovRing : blocksVision(At(fovMap, c))

\* C24: when the observer stands in a rectangular room that a ring of walls
\* surrounds completely, calculate returns, for any radius, only tiles of the
\* room and of the ring, and no tile beyond the ring is marked visible.
C24_NothingSeenBeyondTheRing ==
    (fovOp.how = "computed" /\ InWalledRoom) =>
        /\ SeqRange(visibleTiles) \subseteq FovRoom \cup FovRing
        /\ visible \subseteq FovRoom \cup FovRing

(***************************************************************************)
(* Properties of path finding                                              *)
(***************************************************************************)
\* The option fields in effect during the last findPath call.
InEffect == setOptions(prevOptions, call.options)

\* findPath has returned, with a path or with null.
Returned == ppc = "returned"
ReturnedPath == Returned /\ ~result.isNull

\* The cell c may be stood on under the option fields opts: it is in the
\* grid, its terrain is no wall, no entity of the entity map is on it when
\* entities are avoided, and no trap in plain sight when traps are avoided.
MayStandOn(c, opts) ==
    /\ c \in PathCells
    /\ At(pathMap, c) # WALL
    /\ opts.avoidEntities => c \notin entityMap
    /\ opts.avoidTraps => At(pathMap, c) # TRAP

\* A step from c to d is orthogonal or diagonal.
Orthogonal(c, d) == Abs(c[1] - d[1]) + Abs(c[2] - d[2]) = 1
IsDiagonal(c, d) == Abs(c[1] - d[1]) = 1 /\ Abs(c[2] - d[2]) = 1

\* The two cells orthogonally adjacent to both ends of a diagonal step.
Corners(c, d) == {<<d[1], c[2]>>, <<c[1], d[2]>>}

\* The move from c to d is one the option fields opts allow.
MayStep(c, d, opts) ==
    /\ MayStandOn(d, opts)
    /\ \/ Orthogonal(c, d)
       \/ /\ IsDiagonal(c, d)
          /\ opts.allowDiagonal
          /\ opts.cutCorners \/ \A e \in Corners(c, d) : MayStandOn(e, opts)

\* The cells that moves allowed under opts lead to from the cells of
\* `frontier`; `seen` holds the cells already collected.
RECURSIVE PathFill(_, _, _)
PathFill(frontier, seen, opts) ==
    IF frontier = {}
    THEN seen
    ELSE LET next == {d \in PathCells \ seen : \E c \in frontier : MayStep(c, d, opts)}
         IN  PathFill(next, seen \cup next, opts)

Reachable(from, opts) ==
    IF MayStandOn(from, opts) THEN PathFill({from}, {from}, opts) ELSE {}

\* The summed step cost of a path, in tenths: 1 for an orthogonal and 1.4
\* for a diagonal step, times the cost multiplier of the tile entered.
RECURSIVE PathCost(_, _)
PathCost(path, k) ==
    IF k >= Len(path)
    THEN 0
    ELSE (IF IsDiagonal(path[k], path[k + 1]) THEN 14 ELSE 10)
             * (IF At(pathMap, path[k + 1]) = MUD THEN 2 ELSE 1)
         + PathCost(path, k + 1)

\* C6: findPath called with the start equal to the goal, on a walkable tile,
\* returns the path that holds exactly that one coordinate.
C6_SameStartAndGoal ==
    (/\ Returned
     /\ pathMap # NoMap
     /\ call.start = call.goal
     /\ MayStandOn(call.start, InEffect))
        => ~result.isNull /\ result.path = <<call.start>>

\* C16: a call of findPath on a map, with a start or a goal outside the grid,
\* does not return the no-path value (null) that an unreachable goal inside
\* the grid gives: it reports an error.
C16_OutOfGridEndpointIsAnError ==
    (/\ Returned
     /\ pathMap # NoMap
     /\ (call.start \notin PathCells \/ call.goal \notin PathCells))
        => result # NoPath

\* C7: the search loop of findPath dequeues at most maxIterations nodes, a
\* call that has entered the loop returns, and it returns null, not a path,
\* when no sequence of allowed moves leads from the start to the goal.
C7_SearchCapped ==
    /\ ppc # "idle" => iterations <= InEffect.maxIterations
    /\ (Returned /\ pathMap # NoMap /\ call.goal \notin Reachable(call.start, InEffect))
           => result.isNull
C8_CostEqualsHeuristic ==
    (/\ ReturnedPath
     /\ pathMap = OpenGrid /\ entityMap = {}
     /\ InEffect.heuristicWeight = 10)
        => LET h == heuristic(InEffect, call.start[1], call.start[2],
                              call.goal[1], call.goal[2])
           IN  h.b = 0 /\ PathCost(result.path, 1) = 10 * h.a

\* C9: a returned path that is not empty begins at the start, ends at the
\* goal, moves by one step to an adjacent tile each time (orthogonal only
\* when allowDiagonal is false) and holds only tiles that may be stood on
\* under the options in effect.
C9_PathIsValid ==
    (ReturnedPath /\ result.path # <<>>)
        => LET path == result.path
           IN  /\ path[1] = call.start
               /\ path[Len(path)] = call.goal
               /\ \A k \in 1..(Len(path) - 1) :
                      \/ Orthogonal(path[k], path[k + 1])
                      \/ InEffect.allowDiagonal /\ IsDiagonal(path[k], path[k + 1])
               /\ \A k \in 1..Len(path) : MayStandOn(path[k], InEffect)

\* C9 witness: with traps avoided, a path has been returned from <<0, 0>> to
\* <<2, 2>> on the grid whose tile <<1, 1>> between them is a trap in plain
\* sight.
C9_Witness ==
    /\ ReturnedPath
    /\ InEffect.avoidTraps
    /\ call.start = <<0, 0>> /\ call.goal = <<2, 2>>
    /\ At(pathMap, <<1, 1>>) = TRAP
    /\ Len(result.path) > 3

\* C10: when cutCorners is false, both tiles orthogonally adjacent to the
\* two ends of every diagonal step of a returned path may be stood on.
C10_NoCornerCut ==
    (ReturnedPath /\ ~InEffect.cutCorners)
        => \A k \in 1..(Len(result.path) - 1) :
               IsDiagonal(result.path[k], result.path[k + 1])
                   => \A e \in Corners(result.path[k], result.path[k + 1]) :
                          MayStandOn(e, InEffect)

\* C10 witness: with cutCorners false, a returned path on a grid with walls
\* that takes a diagonal step and passes next to a wall.
C10_Witness ==
    /\ ReturnedPath /\ ~InEffect.cutCorners
    /\ \E k \in 1..(Len(result.path) - 1) :
           IsDiagonal(result.path[k], result.path[k + 1])
    /\ \E k \in 1..Len(result.path) : \E c \in PathCells :
           At(pathMap, c) = WALL /\ Orthogonal(result.path[k], c)

(***************************************************************************)
(* Properties of the line of sight and of path smoothing                   *)
(***************************************************************************)
\* The Bresenham line from a to b: n = max(dx, dy) steps along the longer
\* axis, the other coordinate at step k being k * (shorter / longer) rounded
\* to the nearest integer, halves rounded down.
LineSteps(a, b) == Max(Abs(b[1] - a[1]), Abs(b[2] - a[2]))
LinePoint(a, b, k) ==
    LET n == LineSteps(a, b)
        along(from, to) ==
            LET d == Abs(to - from)
                sign == IF from < to THEN 1 ELSE -1
            IN  IF n = 0 THEN from
                ELSE from + sign * FloorDiv(2 * k * d + n - 1, 2 * n)
    IN  <<along(a[1], b[1]), along(a[2], b[2])>>
LineBetween(a, b) == { LinePoint(a, b, k) : k \in 1 .. (LineSteps(a, b) - 1) }
Opaque(m, c) == ~isInBounds(m, c[1], c[2]) \/ ~transparent(getTile(m, c[1], c[2]))

\* C26: getLineOfSight reports no line of sight exactly when some tile of
\* the Bresenham line strictly between the two end positions is missing or
\* not transparent; the end positions themselves are not tested, so there is
\* a line of sight whenever the two positions are equal or adjacent, and the
\* path returned is the whole line.
C26_BlockedOnlyBetweenTheEnds ==
    sight.asked =>
        /\ sight.result.isNull <=>
               \E c \in LineBetween(sight.start, sight.end) : Opaque(pathMap, c)
        /\ LineSteps(sight.start, sight.end) <= 1 => ~sight.result.isNull
        /\ ~sight.result.isNull =>
               sight.result.path =
                   [k \in 1 .. (LineSteps(sight.start, sight.end) + 1) |->
                       LinePoint(sight.start, sight.end, k - 1)]

\* C26 witness: a line of sight is reported between two positions that are
\* three steps apart and not in one row or column, the second being a wall.
C26_Witness ==
    /\ sight.asked /\ ~sight.result.isNull
    /\ LineSteps(sight.start, sight.end) = 3
    /\ sight.start[2] # sight.end[2]
    /\ isInBounds(pathMap, sight.end[1], sight.end[2])
    /\ ~transparent(getTile(pathMap, sight.end[1], sight.end[2]))

\* The index in the raw path of the k-th waypoint of the smoothed path (the
\* cells of a raw path are distinct).
RawIndex(k) == CHOOSE j \in 1 .. Len(result.path) : result.path[j] = smoothed.path[k]
SeenFrom(j) ==
    { i \in (j + 1) .. Len(result.path) :
        hasLineOfSight(pathMap, result.path[j], result.path[i]) }
Smoothed == ppc = "smoothed" /\ ~smoothed.isNull

\* C27: the path findSmoothPath returns starts with the first and ends with
\* the last point of the raw path, its points are points of the raw path in
\* the raw path's order, and each waypoint after the first is the farthest
\* later point of the raw path with a line of sight from the waypoint before
\* it (the next raw point when no later point has one).
C27_SkipsToFarthestSeen ==
    Smoothed =>
        LET raw == result.path
            path == smoothed.path
        IN  /\ Len(raw) > 0 => (Len(path) > 0 /\ path[1] = raw[1]
                                              /\ path[Len(path)] = raw[Len(raw)])
            /\ \A k \in 1 .. Len(path) : \E j \in 1 .. Len(raw) : raw[j] = path[k]
            /\ \A k \in 1 .. (Len(path) - 1) :
                   /\ RawIndex(k) < RawIndex(k + 1)
                   /\ RawIndex(k + 1) =
                          IF SeenFrom(RawIndex(k)) = {} THEN RawIndex(k) + 1
                          ELSE CHOOSE i \in SeenFrom(RawIndex(k)) :
                                   \A h \in SeenFrom(RawIndex(k)) : h <= i

(***************************************************************************)
(* Properties of the priority queue                                        *)
(***************************************************************************)
\* C28: after any sequence of enqueue, dequeue and updatePriority calls on
\* distinct values, the queue holds exactly the values enqueued and not yet
\* returned by dequeue, each with its current priority, and a dequeue has
\* returned a value whose priority was minimal among those held (null when
\* none was held).
C28_DequeueReturnsAMinimum ==
    /\ { queue[k].value : k \in 1 .. Len(queue) } = DOMAIN queueOp.held
    /\ Len(queue) = Cardinality(DOMAIN queueOp.held)
    /\ \A k \in 1 .. Len(queue) : queue[k].priority = queueOp.held[queue[k].value]
    /\ queueOp.op = "dequeue" =>
         IF queueOp.before = NoHeld THEN queueOp.returned = 0
         ELSE /\ queueOp.returned \in DOMAIN queueOp.before
              /\ \A v \in DOMAIN queueOp.before :
                     ~PriorityLess(queueOp.before[v], queueOp.before[queueOp.returned])

\* C28 witness: a dequeue on a queue of four values has returned the one
\* value of lowest priority, and the three values left are not all of one
\* priority.
C28_Witness ==
    /\ queueOp.op = "dequeue"
    /\ Cardinality(DOMAIN queueOp.before) = 4
    /\ \A v \in DOMAIN queueOp.before \ {queueOp.returned} :
           PriorityLess(queueOp.before[queueOp.returned], queueOp.before[v])
    /\ Cardinality({ queue[k].priority : k \in 1 .. Len(queue) }) > 1

(***************************************************************************)
(* Properties of the entity cache and of the options                       *)
(***************************************************************************)
\* C29: with avoidEntities on for the call, findPath returns no path
\* whenever the start or the goal is a position of the entity cache, as the
\* last updateEntityMap filled it, also when that entity is the mover at the
\* start or the target at the goal.
C29_EntityOnEndpointMeansNoPath ==
    (Returned /\ pathMap # NoMap /\ InEffect.avoidEntities
       /\ (call.start \in entityMap \/ call.goal \in entityMap))
        => result.isNull

\* C29 witness: findPath has returned no path from the start <<0, 0>>, a
\* floor tile on which the mover itself is cached, to another floor tile on
\* the grid without obstacles.
C29_Witness ==
    /\ Returned /\ result.isNull
    /\ pathMap = OpenGrid
    /\ InEffect.avoidEntities
    /\ call.start = <<0, 0>> /\ call.start \in entityMap
    /\ call.goal \in PathCells \ entityMap

\* C30: when findPath has returned, the option fields are exactly what they
\* were when it was entered, whatever the per-call options were and whichever
\* way it returned: no map, an endpoint that is not walkable, a path found,
\* the open set exhausted, or the iteration cap reached.
C30_OptionsRestored ==
    Returned => options = prevOptions

\* C30 witness: a call whose options lowered maxIterations has returned at
\* the cap, and the persistent options differ from those of the call.
C30_Witness ==
    /\ Returned /\ result.isNull
    /\ call.options = [maxIterations |-> PathSmallCap]
    /\ iterations = PathSmallCap
    /\ openSet # <<>>
    /\ options.maxIterations # PathSmallCap

====
